---- MODULE Spec2Model ----
(***************************************************************************)
(* Model of the statistical analysis engine of the 5G CQI analyzer         *)
(* (class CQI分析器 of src/CQI_ZTE/cqi_streamlit_对比版zte.py).             *)
(*                                                                         *)
(* The source's identifiers are Chinese and cannot be TLA+ names; every    *)
(* definition carries the source name it models in its comment.            *)
(*                                                                         *)
(* A data frame is a record [cols, rows]: cols is the set of column names  *)
(* it has, rows a sequence of records.  A row keeps its index label in     *)
(* idx (pandas keeps the labels through dropna and boolean indexing).      *)
(* Column names of the model (source column):                              *)
(*   std (网络制式)  cqi (CQI优良率)  dl (下行用户平均速率(MBPS))            *)
(*   ul (上行用户平均速率(MBPS))  level (小区MR覆盖平均电平)                 *)
(*   level_dBm (小区MR覆盖平均电平(dBm), the header the cleaner renames)    *)
(*   sinr (小区MR覆盖平均SINR)  ta (小区MR覆盖平均TA)                        *)
(*   intf (小区上行平均干扰电平)  prbUl / prbDl (上行/下行PRB平均利用率)      *)
(*   cf (覆盖系数, unit 1/100)  overlap (重叠覆盖采样点比例(%))              *)
(*   isd (方向角站间距（米）)                                               *)
(* Numbers are integers; a mean is kept as the pair sum/count, a Pearson   *)
(* coefficient as its sign, r^2 in millionths and |r| in thousandths.      *)
(***************************************************************************)
EXTENDS Integers, Sequences, FiniteSets, TLC

VARIABLES
    pc,           \* "new" (constructed), "loaded" (读取数据 done), "cleaned" (清洗数据
                  \* done, ready for an analysis), "returned" (an analysis returned)
    rawData,      \* self.原始数据
    cleanedData,  \* self.清洗后数据
    result        \* what the last operation returned (or the exception it raised)

vars == <<pc, rawData, cleanedData, result>>

-----------------------------------------------------------------------------
(* Bounds of the model *)

\* rows of a small raw dataset: 0..MaxRows
MaxRows == 3
\* rows of a large raw dataset: MinQuantileRows..MaxBig
MaxBig == 10
\* requested band counts: 2..MaxQ
MaxQ == 5
\* absolute coefficients handed to the strength classification: 0..MaxA thousandths
MaxA == 1000
\* segment counts asked of the inflection detector: 1..MaxSeg
MaxSeg == 3

-----------------------------------------------------------------------------
(* Cell values *)

\* the missing value of a numeric column (NaN / None)
NaN == -1000000
\* a cell holding text that is no number
Text == -2000000
\* float('inf') and -float('inf')
Inf == 1000000
NegInf == -1000001
\* the missing value of the 网络制式 column
NoStd == "NaN"

\* self.原始数据 / self.清洗后数据 = None
NoFrame == [cols |-> {}, rows |-> <<>>]

IsNullCell(r, f) == IF f = "std" THEN r[f] = NoStd ELSE r[f] = NaN

\* DataFrame.dropna(subset=...) (on a frame narrowed to the subset: plain dropna())
DropNa(rows, subset) == SelectSeq(rows, LAMBDA r : \A f \in subset : ~IsNullCell(r, f))

RECURSIVE SumSeq(_)
SumSeq(s) == IF s = <<>> THEN 0 ELSE Head(s) + SumSeq(Tail(s))

\* the values of one column, in row order
Column(rows, f) == [i \in DOMAIN rows |-> rows[i][f]]

IdxSet(rows) == {rows[i].idx : i \in DOMAIN rows}

-----------------------------------------------------------------------------
(* 清洗数据 *)

\* 列名映射: rename 小区MR覆盖平均电平(dBm) to 小区MR覆盖平均电平
RenameColumns(cols) ==
    IF "level_dBm" \in cols THEN (cols \ {"level_dBm"}) \cup {"level"} ELSE cols

RequiredMetrics == {"cqi", "dl", "ul", "level", "sinr", "ta", "intf"}

KeyColumnsNoStd(cols) == RequiredMetrics

\* 关键列: the seven metrics, and 网络制式 when the column exists
KeyColumns(cols) == RequiredMetrics \cup (IF "std" \in cols THEN {"std"} ELSE {})

\* pd.to_numeric(..., errors='coerce')
ToNumeric(v) == IF v = Text THEN NaN ELSE v

\* TA / 站间距 on float columns, in 1/100: a zero divisor gives inf or NaN, no error
DivideCells(a, b) ==
    IF a = NaN \/ b = NaN THEN NaN
    ELSE IF b = 0 THEN (IF a > 0 THEN Inf ELSE IF a < 0 THEN NegInf ELSE NaN)
    ELSE (a * 100) \div b

CoverageFactorColumn(frame) ==
    IF "cf" \in frame.cols
    THEN [frame EXCEPT !.rows = [i \in DOMAIN frame.rows |->
              [frame.rows[i] EXCEPT !.cf = ToNumeric(frame.rows[i].cf)]]]
    ELSE IF "isd" \in frame.cols /\ "ta" \in frame.cols
    THEN [cols |-> frame.cols \cup {"cf"},
          rows |-> [i \in DOMAIN frame.rows |->
              [frame.rows[i] EXCEPT !.cf = DivideCells(ToNumeric(frame.rows[i].ta),
                                                       ToNumeric(frame.rows[i].isd))]]]
    ELSE frame

CleanFrame(frame) ==
    LET cols == RenameColumns(frame.cols)
        kept == DropNa(frame.rows, KeyColumns(cols))
    IN  CoverageFactorColumn([cols |-> cols, rows |-> kept])

-----------------------------------------------------------------------------
(* 按网络制式分组 *)

GroupByStandardNoFilter(frame) ==
    IF "std" \notin frame.cols
    THEN [l \in {"all"} |-> frame]
    ELSE [s \in {frame.rows[i].std : i \in DOMAIN frame.rows} |-> frame]

\* label -> sub-frame; a missing label compares unequal to itself, so its group is empty
GroupByStandard(frame) ==
    IF "std" \notin frame.cols
    THEN [l \in {"all"} |-> frame]
    ELSE [s \in {frame.rows[i].std : i \in DOMAIN frame.rows} |->
            [cols |-> frame.cols,
             rows |-> SelectSeq(frame.rows, LAMBDA r : r.std = s /\ s # NoStd)]]

-----------------------------------------------------------------------------
(* 判断相关性强度 *)

\* a float comparison: false whenever an operand is NaN
FloatLt(a, b) == a # NaN /\ b # NaN /\ a < b

JudgeStrengthInclusive(a) ==
    IF a # NaN /\ a <= 100 THEN "negligible"
    ELSE IF a # NaN /\ a <= 300 THEN "weak"
    ELSE IF a # NaN /\ a <= 500 THEN "moderate"
    ELSE IF a # NaN /\ a <= 700 THEN "strong"
    ELSE "very strong"

\* the argument is the absolute coefficient in thousandths (0.1 is 100);
\* the labels stand for 极弱, 弱, 中等, 强, 极强
JudgeStrength(a) ==
    IF FloatLt(a, 100) THEN "negligible"
    ELSE IF FloatLt(a, 300) THEN "weak"
    ELSE IF FloatLt(a, 500) THEN "moderate"
    ELSE IF FloatLt(a, 700) THEN "strong"
    ELSE "very strong"

-----------------------------------------------------------------------------
(* scipy.stats.pearsonr, as 计算相关性_按制式 calls it *)

RECURSIVE SumProd(_, _)
SumProd(xs, ys) ==
    IF xs = <<>> THEN 0 ELSE Head(xs) * Head(ys) + SumProd(Tail(xs), Tail(ys))

\* floor(10^6 * num / den) for 0 <= num <= den, by long division in base 100
Millionths(num, den) ==
    IF num >= den THEN 1000000
    ELSE LET d1 == (num * 100) \div den
             r1 == (num * 100) % den
             d2 == (r1 * 100) \div den
             r2 == (r1 * 100) % den
             d3 == (r2 * 100) \div den
         IN  d1 * 10000 + d2 * 100 + d3

\* floor(sqrt(x)) for x in 0..10^6, by bisection on lo..hi
RECURSIVE ISqrt(_, _, _)
ISqrt(x, lo, hi) ==
    IF lo >= hi THEN lo
    ELSE LET mid == (lo + hi + 1) \div 2
         IN  IF mid * mid <= x THEN ISqrt(x, mid, hi) ELSE ISqrt(x, lo, mid - 1)

\* the two-sided 5% critical value of r^2 in millionths, by degrees of freedom n - 2
\* (t of Student's distribution: r^2 = t^2 / (t^2 + df))
CriticalR2(df) ==
    LET table == <<993844, 902500, 771479, 658373, 569258,
                   499473, 444066, 399293, 362487, 331757>>
    IN  IF df <= Len(table) THEN table[df] ELSE (3841600 \div (384 + 100 * df)) * 100

NoneCoef == [kind |-> "None", sign |-> 0, r2 |-> 0, abs |-> 0]
NaNCoef == [kind |-> "nan", sign |-> 0, r2 |-> 0, abs |-> 0]
NoneP == [kind |-> "None", lt05 |-> FALSE]
NaNP == [kind |-> "nan", lt05 |-> FALSE]

\* {"相关系数": None, "P值": None}
UndefinedCorrelation == [coef |-> NoneCoef, p |-> NoneP]

\* the coefficient carries its sign, r^2 in millionths and |r| in thousandths;
\* the p-value carries whether it is below 0.05.  A constant input gives (nan, nan)
\* with a warning, not an exception
Pearson(xs, ys) ==
    LET n == Len(xs)
        sx == SumSeq(xs)
        sy == SumSeq(ys)
        cov == n * SumProd(xs, ys) - sx * sy
        vx == n * SumProd(xs, xs) - sx * sx
        vy == n * SumProd(ys, ys) - sy * sy
    IN  IF \E i \in DOMAIN xs : xs[i] \in {Inf, NegInf} \/ ys[i] \in {Inf, NegInf}
        THEN [coef |-> NaNCoef, p |-> NaNP]
        ELSE IF vx = 0 \/ vy = 0 THEN [coef |-> NaNCoef, p |-> NaNP]
        ELSE LET r2 == Millionths(cov * cov, vx * vy)
             IN  [coef |-> [kind |-> "num",
                            sign |-> IF cov > 0 THEN 1 ELSE IF cov < 0 THEN -1 ELSE 0,
                            r2 |-> r2,
                            abs |-> ISqrt(r2, 0, 1000)],
                  p |-> [kind |-> "num", lt05 |-> r2 > CriticalR2(n - 2)]]

-----------------------------------------------------------------------------
(* 计算相关性_按制式 *)

MinCorrSamplesTwo == 3 - 1

\* "至少需要3个样本"
MinCorrSamples == 3

\* 字段1, 字段2, 数据子集 (the rows of the subset)
Correlate(f1, f2, rows) ==
    LET valid == DropNa(rows, {f1, f2})
    IN  IF Len(valid) < MinCorrSamples THEN UndefinedCorrelation
        ELSE IF \E i \in DOMAIN valid : valid[i][f1] = Text \/ valid[i][f2] = Text
        THEN UndefinedCorrelation   \* pearsonr raises on text, caught by the except
        ELSE Pearson(Column(valid, f1), Column(valid, f2))

-----------------------------------------------------------------------------
(* pd.qcut(x, q, labels=..., duplicates='drop') *)

\* quantile edges taken at position i * n / q without interpolation
QuantileEdgeOffByOne(sorted, q, i) ==
    LET pos == i * Len(sorted)
        f == IF pos \div q >= Len(sorted) THEN Len(sorted) - 1 ELSE pos \div q
    IN  q * sorted[f + 1]

\* the i-th of the q + 1 quantile edges (i in 0..q) of the sorted values, times q:
\* linear interpolation at position i * (n - 1) / q
QuantileEdge(sorted, q, i) ==
    LET pos == i * (Len(sorted) - 1)
        f == pos \div q
        r == pos % q
    IN  IF r = 0 THEN q * sorted[f + 1]
        ELSE q * sorted[f + 1] + r * (sorted[f + 2] - sorted[f + 1])

\* algos.unique on a non-decreasing sequence
RECURSIVE Unique(_)
Unique(s) ==
    IF Len(s) <= 1 THEN s
    ELSE IF s[1] = s[2] THEN Unique(Tail(s))
    ELSE <<s[1]>> \o Unique(Tail(s))

\* the bin edges (times q) qcut ends with: the quantiles of the non-null values, the
\* duplicates dropped unless there are just two edges; no value at all gives one NaN
QCutBins(values, q) ==
    LET sorted == SortSeq(values, LAMBDA a, b : a < b)
        edges == [k \in 1..(q + 1) |-> QuantileEdge(sorted, q, k - 1)]
    IN  IF values = <<>> THEN <<NaN>>
        ELSE IF Len(Unique(edges)) < Len(edges) /\ Len(edges) # 2 THEN Unique(edges)
        ELSE edges

BinOfOpenLowest(x, q, bins) ==
    LET ids == Cardinality({j \in DOMAIN bins : bins[j] < q * x})
    IN  IF ids = 0 \/ ids = Len(bins) THEN 0 ELSE ids

\* the bin of value x, 1..Len(bins)-1, or 0 for no bin (NaN):
\* searchsorted(side='left'), include_lowest=True, right-closed intervals
BinOf(x, q, bins) ==
    LET ids == IF q * x = bins[1] THEN 1
               ELSE Cardinality({j \in DOMAIN bins : bins[j] < q * x})
    IN  IF ids = 0 \/ ids = Len(bins) THEN 0 ELSE ids

\* "Bin labels must be one fewer than the number of bin edges" (ValueError)
LabelsMismatch(nLabels, bins) == nLabels # Len(bins) - 1

\* numpy's round to 2 decimals of num/den * 100, in 1/100: round half to even
RoundHalfEven(num, den) ==
    LET n == IF den < 0 THEN -num ELSE num
        d == IF den < 0 THEN -den ELSE den
        fl == IF n >= 0 THEN n \div d ELSE -((-n + d - 1) \div d)
        rem == n - fl * d
    IN  IF 2 * rem < d THEN fl
        ELSE IF 2 * rem > d THEN fl + 1
        ELSE IF fl % 2 = 0 THEN fl ELSE fl + 1

-----------------------------------------------------------------------------
(* CQI分位数速率分析_按制式 *)

\* "if len(有效数据) < 10: continue"
MinQuantileRows == 10

SegmentColumns == {"cqi", "dl", "ul"}

\* the sum and the count of a column over the rows of one band (mean = sum / count,
\* NaN for an empty band)
BandRows(rows, q, bins, k) == SelectSeq(rows, LAMBDA r : BinOf(r.cqi, q, bins) = k)

NaNUplift == [kind |-> "nan", val |-> 0]

\* ((mean_i - base) / base * 100).round(2) on floats, val in 1/100 of a percent:
\* a zero base gives inf, -inf or NaN, not an error
Uplift(si, ci, s0, c0) ==
    IF ci = 0 \/ c0 = 0 THEN NaNUplift
    ELSE IF s0 = 0
    THEN (IF si > 0 THEN [kind |-> "inf", val |-> 0]
          ELSE IF si < 0 THEN [kind |-> "-inf", val |-> 0]
          ELSE NaNUplift)
    ELSE [kind |-> "num", val |-> RoundHalfEven((si * c0 - s0 * ci) * 10000, s0 * ci)]

\* 分位数统计 of one group: one row per category (groupby on a categorical keeps the
\* empty categories); the uplift columns exist when the table has more than one row
QuantileTable(valid, q, bins) ==
    LET nb == Len(bins) - 1
        members(k) == BandRows(valid, q, bins, k)
        base == members(1)
    IN  [k \in 1..nb |->
            LET m == members(k)
            IN  [count |-> Len(m),
                 cqiSum |-> SumSeq(Column(m, "cqi")),
                 dlSum |-> SumSeq(Column(m, "dl")),
                 ulSum |-> SumSeq(Column(m, "ul")),
                 hasUplift |-> nb > 1,
                 dlUplift |-> IF nb > 1
                              THEN Uplift(SumSeq(Column(m, "dl")), Len(m),
                                          SumSeq(Column(base, "dl")), Len(base))
                              ELSE NaNUplift,
                 ulUplift |-> IF nb > 1
                              THEN Uplift(SumSeq(Column(m, "ul")), Len(m),
                                          SumSeq(Column(base, "ul")), Len(base))
                              ELSE NaNUplift]]

\* the rows of a group the segmenter works on
SegmentValid(frame) == DropNa(frame.rows, SegmentColumns)

\* the groups the segmenter does not skip
SegmentLabels(groups) ==
    {l \in DOMAIN groups : "cqi" \in groups[l].cols
                           /\ Len(SegmentValid(groups[l])) >= MinQuantileRows}

\* 分位数: the whole call; qcut's ValueError is not caught
QuantileRateAnalysis(frame, q) ==
    LET groups == GroupByStandard(frame)
        labels == SegmentLabels(groups)
        bins(l) == QCutBins(Column(SegmentValid(groups[l]), "cqi"), q)
    IN  IF \E l \in labels : LabelsMismatch(q, bins(l))
        THEN [raised |-> "ValueError", value |-> <<>>]
        ELSE [raised |-> "none",
              value |-> [l \in labels |-> QuantileTable(SegmentValid(groups[l]), q, bins(l))]]

-----------------------------------------------------------------------------
(* 分析影响CQI的指标_按制式 *)

\* 影响指标, in the order of the list
Candidates == <<"level", "sinr", "ta", "intf", "prbUl", "prbDl", "cf", "overlap">>

\* the key abs(x["相关系数"]) of the sort, in millionths of r^2 (same order as |r|)
SortKey(e) == IF e.coef.kind = "nan" THEN NaN ELSE e.coef.r2

\* sorted(..., reverse=True): stable, descending; a NaN key compares false both ways
RECURSIVE InsertDescending(_, _)
InsertDescending(sorted, e) ==
    IF sorted = <<>> THEN <<e>>
    ELSE IF FloatLt(SortKey(Head(sorted)), SortKey(e)) THEN <<e>> \o sorted
    ELSE <<Head(sorted)>> \o InsertDescending(Tail(sorted), e)

RECURSIVE SortDescending(_)
SortDescending(s) ==
    IF s = <<>> THEN <<>>
    ELSE InsertDescending(SortDescending(SubSeq(s, 1, Len(s) - 1)), s[Len(s)])

\* one entry of 结果列表: 指标, 相关系数, P值, 显著性, 强度
FactorEntry(frame, f) ==
    LET c == Correlate("cqi", f, frame.rows)
    IN  [field |-> f, coef |-> c.coef, p |-> c.p,
         significant |-> c.p.lt05,
         strength |-> JudgeStrength(IF c.coef.kind = "nan" THEN NaN ELSE c.coef.abs)]

PresentCandidates(frame) == SelectSeq(Candidates, LAMBDA f : f \in frame.cols)

\* None < 0.05 and abs(None) raise TypeError; nothing in the method catches it
RankRaises(frame) ==
    \E i \in DOMAIN PresentCandidates(frame) :
        Correlate("cqi", PresentCandidates(frame)[i], frame.rows).p.kind = "None"

RankFactors(frame) ==
    LET groups == GroupByStandard(frame)
    IN  IF \E l \in DOMAIN groups : RankRaises(groups[l])
        THEN [raised |-> "TypeError", value |-> <<>>]
        ELSE [raised |-> "none",
              value |-> [l \in DOMAIN groups |->
                  SortDescending([i \in DOMAIN PresentCandidates(groups[l]) |->
                      FactorEntry(groups[l], PresentCandidates(groups[l])[i])])]]

-----------------------------------------------------------------------------
(* 按CQI分组分析_按制式 *)

\* 分析列: six metrics, and the two optional columns when the data has them
AnalysisColumns(cols) ==
    {"dl", "ul", "level", "sinr", "ta", "intf"} \cup (cols \cap {"cf", "overlap"})

Finite(v) == v \notin {NaN, Inf, NegInf, Text}

\* agg(['mean', 'std', 'count']) of one column over one band, as count, sum and sum of
\* squares of the non-null cells
ColumnStats(rows, f) ==
    LET cells == SelectSeq(Column(rows, f), LAMBDA v : Finite(v))
    IN  [count |-> Cardinality({i \in DOMAIN rows : rows[i][f] # NaN}),
         sum |-> SumSeq(cells),
         sumsq |-> SumProd(cells, cells)]

GroupTable(frame, q, bins) ==
    [k \in 1..(Len(bins) - 1) |->
        LET m == BandRows(frame.rows, q, bins, k)
        IN  [count |-> Len(m),
             stats |-> [f \in AnalysisColumns(frame.cols) |-> ColumnStats(m, f)]]]

\* 分组数: the whole call; qcut's ValueError is not caught
GroupAnalysis(frame, q) ==
    LET groups == GroupByStandard(frame)
        bins(l) == QCutBins(Column(DropNa(groups[l].rows, {"cqi"}), "cqi"), q)
    IN  IF \E l \in DOMAIN groups : LabelsMismatch(q, bins(l))
        THEN [raised |-> "ValueError", value |-> <<>>]
        ELSE [raised |-> "none",
              value |-> [l \in DOMAIN groups |-> GroupTable(groups[l], q, bins(l))]]

-----------------------------------------------------------------------------
(* The datasets 读取数据 may load *)

Standards == {"n41", "n28"}

MakeRow(i, std, cqi, dl, ul, level, sinr, ta, intf) ==
    [idx |-> i, std |-> std, cqi |-> cqi, dl |-> dl, ul |-> ul, level |-> level,
     sinr |-> sinr, ta |-> ta, intf |-> intf,
     prbUl |-> NaN, prbDl |-> NaN, cf |-> NaN, overlap |-> NaN, isd |-> NaN]

BaseColumns == {"cqi", "dl", "ul", "sinr", "ta", "intf"}

\* Small datasets: every row is of one of these kinds; a kind fixes the standard, the
\* CQI good-rate, the coverage level and which required cells are missing
SmallKinds(hasStd) ==
    LET stds == IF hasStd THEN Standards ELSE {NoStd}
    IN  [std : stds, cqi : {80, 90}, level : {-100, -85}, intf : {-110}]
        \cup [std : {IF hasStd THEN "n41" ELSE NoStd}, cqi : {NaN, 80}, level : {-100},
              intf : {NaN}]
        \cup (IF hasStd THEN [std : {NoStd}, cqi : {80}, level : {-100}, intf : {-110}]
              ELSE {})

SmallFrame(hasStd, header, kinds) ==
    [cols |-> BaseColumns \cup {header} \cup (IF hasStd THEN {"std"} ELSE {}),
     rows |-> [i \in DOMAIN kinds |->
                 MakeRow(i, kinds[i].std, kinds[i].cqi, 5 + i, 2, kinds[i].level,
                         8 + 4 * i, i * i, kinds[i].intf)]]

SmallFrames ==
    {SmallFrame(TRUE, "level", kinds) :
        kinds \in UNION {[1..n -> SmallKinds(TRUE)] : n \in 0..MaxRows}}
    \cup
    {SmallFrame(FALSE, header, kinds) :
        header \in {"level", "level_dBm"},
        kinds \in UNION {[1..n -> SmallKinds(FALSE)] : n \in 0..MaxRows}}

\* Large datasets: n rows of one standard with non-decreasing CQI good-rates (each
\* step 0 or 1, so ties and distinct values both occur) and a rate profile
Profiles == {"ramp", "zeroLow", "zero"}

\* the rate profiles each mode of the 网络制式 column is combined with
ProfilesOf(mode) == IF mode = "n41" THEN Profiles ELSE {"ramp"}

RECURSIVE Prefix(_, _)
Prefix(gaps, i) == IF i = 0 THEN 0 ELSE gaps[i] + Prefix(gaps, i - 1)

BigRow(i, std, gaps, profile) ==
    MakeRow(i, std, 80 + Prefix(gaps, i - 1),
            CASE profile = "ramp" -> i
              [] profile = "zeroLow" -> (IF i <= 2 THEN 0 ELSE 1)
              [] OTHER -> 0,
            CASE profile = "ramp" -> 1
              [] profile = "zeroLow" -> i
              [] OTHER -> 0,
            -100 + i, 5 + ((i * i) % 7), i, -110 + (i % 3))

\* mode "none": no 网络制式 column; "n41": one standard; "mixed": one n28 row more
BigFrame(n, gaps, profile, mode) ==
    LET std == IF mode = "none" THEN NoStd ELSE "n41"
        main == [i \in 1..n |-> BigRow(i, std, gaps, profile)]
    IN  [cols |-> BaseColumns \cup {"level"} \cup (IF mode = "none" THEN {} ELSE {"std"}),
         rows |-> IF mode = "mixed"
                  THEN Append(main, MakeRow(n + 1, "n28", 85, 3, 1, -90, 12, 4, -108))
                  ELSE main]

BigFramesOf(n, mode) ==
    {BigFrame(n, gaps, profile, mode) :
        gaps \in [1..(n - 1) -> {0, 1}], profile \in ProfilesOf(mode)}

BigFrames ==
    UNION {BigFramesOf(n, mode) :
        n \in MinQuantileRows..MaxBig, mode \in {"none", "n41", "mixed"}}

-----------------------------------------------------------------------------
(* State machine: one analyzer object *)

NoResult == [op |-> "none", args |-> <<>>, raised |-> "none", value |-> <<>>]

Returned(op, args, value) == [op |-> op, args |-> args, raised |-> "none", value |-> value]

Outcome(op, args, r) == [op |-> op, args |-> args, raised |-> r.raised, value |-> r.value]

\* __init__
Init ==
    /\ pc = "new"
    /\ rawData = NoFrame
    /\ cleanedData = NoFrame
    /\ result = NoResult

\* 读取数据, the file read being the environment's choice of a dataset
ReadData ==
    /\ pc = "new"
    /\ \E frame \in SmallFrames \cup BigFrames : rawData' = frame
    /\ pc' = "loaded"
    /\ result' = Returned("read", <<>>, TRUE)
    /\ UNCHANGED cleanedData

\* 清洗数据
CleanData ==
    /\ pc = "loaded"
    /\ rawData' = [rawData EXCEPT !.cols = RenameColumns(rawData.cols)]
    /\ cleanedData' = CleanFrame(rawData)
    /\ pc' = "cleaned"
    /\ result' = Returned("clean", <<>>, TRUE)

\* 按网络制式分组
CallGroupByStandard ==
    /\ pc = "cleaned"
    /\ result' = Returned("group", <<>>, GroupByStandard(cleanedData))
    /\ pc' = "returned"
    /\ UNCHANGED <<rawData, cleanedData>>

CorrelatePairs == {<<"cqi", "level">>, <<"cqi", "dl">>}

\* 数据子集: a group of the partition, or None for the whole cleaned data
Subset(label) ==
    IF label = "whole" THEN cleanedData.rows ELSE GroupByStandard(cleanedData)[label].rows

\* 计算相关性_按制式
CallCorrelate ==
    /\ pc = "cleaned"
    /\ \E pair \in CorrelatePairs, label \in {"whole"} \cup DOMAIN GroupByStandard(cleanedData) :
          result' = Returned("correlate", <<pair[1], pair[2], label>>,
                             Correlate(pair[1], pair[2], Subset(label)))
    /\ pc' = "returned"
    /\ UNCHANGED <<rawData, cleanedData>>

\* 分析影响CQI的指标_按制式
CallRankFactors ==
    /\ pc = "cleaned"
    /\ result' = Outcome("rank", <<>>, RankFactors(cleanedData))
    /\ pc' = "returned"
    /\ UNCHANGED <<rawData, cleanedData>>

\* CQI分位数速率分析_按制式
CallQuantileRateAnalysis ==
    /\ pc = "cleaned"
    /\ \E q \in 2..MaxQ :
          result' = Outcome("quantile", <<q>>, QuantileRateAnalysis(cleanedData, q))
    /\ pc' = "returned"
    /\ UNCHANGED <<rawData, cleanedData>>

\* 按CQI分组分析_按制式
CallGroupAnalysis ==
    /\ pc = "cleaned"
    /\ \E q \in 2..MaxQ :
          result' = Outcome("groupAnalysis", <<q>>, GroupAnalysis(cleanedData, q))
    /\ pc' = "returned"
    /\ UNCHANGED <<rawData, cleanedData>>

\* the caller is done with the returned value; the analyzer is ready for the next call
DiscardResult ==
    /\ pc = "returned"
    /\ pc' = "cleaned"
    /\ result' = NoResult
    /\ UNCHANGED <<rawData, cleanedData>>

Next ==
    \/ ReadData
    \/ CleanData
    \/ DiscardResult
    \/ CallGroupByStandard
    \/ CallCorrelate
    \/ CallRankFactors
    \/ CallQuantileRateAnalysis
    \/ CallGroupAnalysis

Spec == Init /\ [][Next]_vars

\* 判断相关性强度 on its own: a pure method, applied to every absolute coefficient of
\* the grid and to NaN
CallJudgeStrength ==
    /\ pc = "new"
    /\ \E a \in (0..MaxA) \cup {NaN} :
          result' = Returned("strength", <<a>>, JudgeStrength(a))
    /\ UNCHANGED <<pc, rawData, cleanedData>>

SpecStrength == Init /\ [][CallJudgeStrength]_vars

-----------------------------------------------------------------------------
(* Float comparisons and ratios shared by the classifiers *)

\* a > b and a <= b on floats: false whenever an operand is NaN; the infinities are
\* the largest and the smallest cell values
FloatGt(a, b) == a # NaN /\ b # NaN /\ a > b

FloatLe(a, b) == a # NaN /\ b # NaN /\ a <= b

\* count / total * 100, kept as the fraction num / den
Percent(count, total) == [num |-> count * 100, den |-> total]

\* the int 0 a result carries when nothing was divided
ZeroPercent == [num |-> 0, den |-> 1]

\* a / b < c / d for a, c >= 0 and b, d > 0, exactly, by the continued fractions
RECURSIVE FracLess(_, _, _, _)
FracLess(a, b, c, d) ==
    IF a \div b # c \div d THEN a \div b < c \div d
    ELSE IF a % b = 0 THEN c % d > 0
    ELSE IF c % d = 0 THEN FALSE
    ELSE FracLess(d, c % d, b, a % b)

-----------------------------------------------------------------------------
(* 贡献度分析_按制式 *)

\* 贡献度(%) = abs(相关系数) * 100: val is |r| in thousandths (1/10 of a percent),
\* num / den is r^2 exactly; kind "nan" for a NaN coefficient
ZeroContribution == [kind |-> "num", val |-> 0, num |-> 0, den |-> 1]
NaNContribution == [kind |-> "nan", val |-> 0, num |-> 0, den |-> 1]

ContributionOf(xs, ys) ==
    LET n == Len(xs)
        cov == n * SumProd(xs, ys) - SumSeq(xs) * SumSeq(ys)
        vx == n * SumProd(xs, xs) - SumSeq(xs) * SumSeq(xs)
        vy == n * SumProd(ys, ys) - SumSeq(ys) * SumSeq(ys)
    IN  IF Pearson(xs, ys).coef.kind = "nan" THEN NaNContribution
        ELSE [kind |-> "num", val |-> Pearson(xs, ys).coef.abs,
              num |-> cov * cov, den |-> vx * vy]

\* one entry of 贡献度列表 before the filter: 指标, 相关系数, 贡献度(%)
ContributionEntry(frame, f) ==
    LET valid == DropNa(frame.rows, {f, "cqi"})
        xs == Column(valid, f)
        ys == Column(valid, "cqi")
    IN  IF Len(valid) < 3
        THEN [field |-> f, coef |-> NoneCoef, contribution |-> ZeroContribution]
        ELSE IF \E i \in DOMAIN valid : valid[i][f] = Text
        THEN [field |-> f, coef |-> NoneCoef, contribution |-> ZeroContribution]
        ELSE [field |-> f, coef |-> Pearson(xs, ys).coef,
              contribution |-> ContributionOf(xs, ys)]

\* x['贡献度(%)'] > 0: false for 0 and for NaN
PositiveContribution(e) == e.contribution.kind = "num" /\ e.contribution.num > 0

ContributionLess(a, b) ==
    FracLess(a.contribution.num, a.contribution.den,
             b.contribution.num, b.contribution.den)

RECURSIVE InsertBeforeEqual(_, _)
InsertBeforeEqual(sorted, e) ==
    IF sorted = <<>> THEN <<e>>
    ELSE IF ~ContributionLess(e, Head(sorted)) THEN <<e>> \o sorted
    ELSE <<Head(sorted)>> \o InsertBeforeEqual(Tail(sorted), e)

\* list.sort(key=..., reverse=True): descending and stable, so an entry goes behind
\* the entries of equal contribution that came before it
RECURSIVE InsertByContribution(_, _)
InsertByContribution(sorted, e) ==
    IF sorted = <<>> THEN <<e>>
    ELSE IF ContributionLess(Head(sorted), e) THEN <<e>> \o sorted
    ELSE <<Head(sorted)>> \o InsertByContribution(Tail(sorted), e)

RECURSIVE SortByContribution(_)
SortByContribution(s) ==
    IF s = <<>> THEN <<>>
    ELSE InsertByContribution(SortByContribution(SubSeq(s, 1, Len(s) - 1)), s[Len(s)])

\* 总贡献度, in thousandths
RECURSIVE TotalContribution(_)
TotalContribution(s) ==
    IF s = <<>> THEN 0 ELSE Head(s).contribution.val + TotalContribution(Tail(s))

CumulativeBefore(s, i) ==
    IF TotalContribution(s) > 0
    THEN Percent(TotalContribution(SubSeq(s, 1, i - 1)), TotalContribution(s))
    ELSE ZeroPercent

\* 累积贡献度(%) of the i-th entry: 累积贡献度 / 总贡献度 * 100 if 总贡献度 > 0 else 0
Cumulative(s, i) ==
    IF TotalContribution(s) > 0
    THEN Percent(TotalContribution(SubSeq(s, 1, i)), TotalContribution(s))
    ELSE ZeroPercent

\* {'贡献度列表': ..., '总贡献度': ...} of one group
ContributionOfGroup(frame) ==
    LET present == SelectSeq(Candidates, LAMBDA f : f \in frame.cols)
        entries == [i \in DOMAIN present |-> ContributionEntry(frame, present[i])]
        ranked == SortByContribution(SelectSeq(entries, PositiveContribution))
    IN  [list |-> [i \in DOMAIN ranked |->
                      [field |-> ranked[i].field, coef |-> ranked[i].coef,
                       contribution |-> ranked[i].contribution,
                       cumulative |-> Cumulative(ranked, i)]],
         total |-> TotalContribution(ranked)]

ContributionAnalysis(frame) ==
    [l \in DOMAIN GroupByStandard(frame) |-> ContributionOfGroup(GroupByStandard(frame)[l])]

-----------------------------------------------------------------------------
(* CQI速率拐点分析_按制式 *)

\* "if len(数据) < 分段数 * 5: continue"
RowsPerSegment == 5

\* 区间统计 of one group: one row per interval of pd.qcut(q=分段数, duplicates='drop')
\* (no labels, so dropping edges raises nothing); 样本数 and the sum of the downlink
\* rate, the mean rate being NaN for an interval without rows
IntervalTable(frame, q) ==
    LET bins == QCutBins(Column(frame.rows, "cqi"), q)
    IN  [k \in 1..(Len(bins) - 1) |->
            [count |-> Len(BandRows(frame.rows, q, bins, k)),
             dlSum |-> SumSeq(Column(BandRows(frame.rows, q, bins, k), "dl"))]]

\* 斜率变化 of row k: the second difference of 平均速率, as the fraction num / den;
\* NaN (defined FALSE) for the first two rows and next to a NaN mean
SlopeChange(t, k) ==
    IF k < 3 \/ t[k].count = 0 \/ t[k - 1].count = 0 \/ t[k - 2].count = 0
    THEN [defined |-> FALSE, num |-> 0, den |-> 1]
    ELSE [defined |-> TRUE,
          num |-> t[k].dlSum * t[k - 1].count * t[k - 2].count
                  - 2 * t[k - 1].dlSum * t[k].count * t[k - 2].count
                  + t[k - 2].dlSum * t[k].count * t[k - 1].count,
          den |-> t[k].count * t[k - 1].count * t[k - 2].count]

SlopeLess(a, b) == a.num * b.den < b.num * a.den

\* Series.idxmax(): the first row holding the largest value that is not NaN; 0 when
\* every value is NaN (idxmax gives NaN then, and .loc[NaN] raises KeyError)
IdxMax(t) ==
    LET defined == {k \in DOMAIN t : SlopeChange(t, k).defined}
        best == {k \in defined :
                    \A j \in defined : ~SlopeLess(SlopeChange(t, k), SlopeChange(t, j))}
    IN  IF defined = {} THEN 0 ELSE CHOOSE k \in best : \A j \in best : k <= j

\* 平均速率 as pct_change() sees it, a NaN mean being filled from the interval before
\* (fill_method='pad'): sum and count of the last interval up to k that has rows
FilledRate(t, k) ==
    LET filled == {j \in 1..k : t[j].count > 0}
    IN  IF filled = {} THEN [sum |-> 0, count |-> 0]
        ELSE LET j == CHOOSE x \in filled : \A y \in filled : y <= x
             IN  [sum |-> t[j].dlSum, count |-> t[j].count]

GrowthAboveFraction(t, k, pct) ==
    /\ k >= 2
    /\ FilledRate(t, k - 1).count > 0
    /\ LET a == FilledRate(t, k)
           b == FilledRate(t, k - 1)
           change == a.sum * b.count - b.sum * a.count
       IN  IF b.sum = 0 THEN a.sum > 0
           ELSE IF b.sum > 0 THEN change > pct * b.sum * a.count
           ELSE change < pct * b.sum * a.count

\* 速率增长率(%) > pct for row k, the rate being pct_change() * 100 of 平均速率: NaN
\* (never above) for the first row, inf over a zero mean
GrowthAbove(t, k, pct) ==
    /\ k >= 2
    /\ FilledRate(t, k - 1).count > 0
    /\ LET a == FilledRate(t, k)
           b == FilledRate(t, k - 1)
           change == 100 * (a.sum * b.count - b.sum * a.count)
       IN  IF b.sum = 0 THEN a.sum > 0
           ELSE IF b.sum > 0 THEN change > pct * b.sum * a.count
           ELSE change < pct * b.sum * a.count

\* 速率增长率(%) < pct for row k
GrowthBelow(t, k, pct) ==
    /\ k >= 2
    /\ FilledRate(t, k - 1).count > 0
    /\ LET a == FilledRate(t, k)
           b == FilledRate(t, k - 1)
           change == 100 * (a.sum * b.count - b.sum * a.count)
       IN  IF b.sum = 0 THEN a.sum < 0
           ELSE IF b.sum > 0 THEN change < pct * b.sum * a.count
           ELSE change > pct * b.sum * a.count

InflectionLabelsAll(groups, q) == DOMAIN groups

\* the groups the detector does not skip
InflectionLabels(groups, q) ==
    {l \in DOMAIN groups : Len(groups[l].rows) >= q * RowsPerSegment}

\* 拐点索引 of a table: 0 for 拐点数据 = None
InflectionOf(t) == IF Len(t) > 2 THEN IdxMax(t) ELSE 0

\* 分段数: the whole call; the KeyError of an all-NaN 斜率变化 is not caught.  Per
\* group: 区间统计, 拐点, the rows flagged 是否拐点, and the rows of 显著提升点 and 平稳点
InflectionAnalysis(frame, q) ==
    LET groups == GroupByStandard(frame)
        labels == InflectionLabels(groups, q)
    IN  IF \E l \in labels :
              Len(IntervalTable(groups[l], q)) > 2 /\ IdxMax(IntervalTable(groups[l], q)) = 0
        THEN [raised |-> "KeyError", value |-> <<>>]
        ELSE [raised |-> "none",
              value |-> [l \in labels |->
                  [table |-> IntervalTable(groups[l], q),
                   inflection |-> InflectionOf(IntervalTable(groups[l], q)),
                   flagged |-> {k \in DOMAIN IntervalTable(groups[l], q) :
                                   k = InflectionOf(IntervalTable(groups[l], q))},
                   significant |-> {k \in DOMAIN IntervalTable(groups[l], q) :
                                       GrowthAbove(IntervalTable(groups[l], q), k, 10)},
                   plateau |-> {k \in DOMAIN IntervalTable(groups[l], q) :
                                   GrowthBelow(IntervalTable(groups[l], q), k, 5)}]]]

\* 数据['CQI区间'] = ...: the group '全部' is the cleaned data itself, which gains the
\* column; a group selected by its standard is a copy
InflectionColumns(frame, q) ==
    IF "std" \notin frame.cols /\ Len(frame.rows) >= q * RowsPerSegment
    THEN frame.cols \cup {"cqiInterval"}
    ELSE frame.cols

-----------------------------------------------------------------------------
(* CQI不达标根因分析_按制式 *)

\* CQI阈值 = None
NoThresholds == [given |-> FALSE, map |-> <<>>]

DefaultThreshold == 85

ThresholdOfFirst(thresholds, l) ==
    IF ~thresholds.given THEN DefaultThreshold
    ELSE IF "n41" \in DOMAIN thresholds.map THEN thresholds.map["n41"]
    ELSE DefaultThreshold

\* 阈值 = CQI阈值.get(制式, 85), the default mapping being {'n41': 85, 'n28': 85}
ThresholdOf(thresholds, l) ==
    IF ~thresholds.given THEN DefaultThreshold
    ELSE IF l \in DOMAIN thresholds.map THEN thresholds.map[l]
    ELSE DefaultThreshold

IsFailingInclusive(r, threshold) == FloatLe(r.cqi, threshold)

\* 数据['CQI优良率'] < 阈值
IsFailing(r, threshold) == FloatLt(r.cqi, threshold)

\* 数据['CQI优良率'] >= 阈值
IsPassing(r, threshold) == FloatLe(threshold, r.cqi)

CoverageRule(r) == FloatLt(r.level, -95)

InterferenceRule(r) == FloatLt(r.sinr, 10)

\* 覆盖系数 > 0.65, the coverage factor being in 1/100
OvershootRule(r) == FloatGt(r.cf, 65)

CombinedRuleEither(r) == CoverageRule(r) \/ InterferenceRule(r)

CombinedRule(r) == CoverageRule(r) /\ InterferenceRule(r)

OverlapRule(r) == FloatLe(15, r.overlap)

FailureRatioOfPassing(failing, total) == Percent(failing, total - failing + 1)

\* 不达标比例 = len(不达标数据) / len(数据) * 100
FailureRatio(failing, total) == Percent(failing, total)

\* 根因统计: the five rows, each rule counted over the failing rows
CauseTable(failing, cols) ==
    LET n(rule(_)) == Len(SelectSeq(failing, rule))
        row(name, count) == [cause |-> name, count |-> count,
                             pct |-> Percent(count, Len(failing))]
    IN  << row("coverage", n(CoverageRule)),
           row("interference", n(InterferenceRule)),
           row("overshoot", IF "cf" \in cols THEN n(OvershootRule) ELSE 0),
           row("combined", n(CombinedRule)),
           row("overlap", IF "overlap" \in cols THEN n(OverlapRule) ELSE 0) >>

RootCauseOfGroup(frame, threshold) ==
    LET failing == SelectSeq(frame.rows, LAMBDA r : IsFailing(r, threshold))
    IN  IF Len(failing) = 0
        THEN [causes |-> <<>>, ratio |-> ZeroPercent, threshold |-> threshold]
        ELSE [causes |-> CauseTable(failing, frame.cols),
              ratio |-> FailureRatio(Len(failing), Len(frame.rows)),
              failing |-> Len(failing),
              total |-> Len(frame.rows),
              threshold |-> threshold]

RootCauseAnalysis(frame, thresholds) ==
    [l \in DOMAIN GroupByStandard(frame) |->
        RootCauseOfGroup(GroupByStandard(frame)[l], ThresholdOf(thresholds, l))]

-----------------------------------------------------------------------------
(* 四象限分析_按制式 and 覆盖系数四象限分析_按制式 *)

InIntervalOpen(v, lo, hi) == FloatGt(v, lo) /\ FloatLt(v, hi)

\* (数据[列] > 下限) & (数据[列] <= 上限)
InInterval(v, lo, hi) == FloatGt(v, lo) /\ FloatLe(v, hi)

\* 象限定义 of 四象限分析_按制式: 覆盖下限, 覆盖上限, SINR下限, SINR上限
QuadrantBounds(levelThreshold, sinrThreshold) ==
    << [levelLo |-> levelThreshold, levelHi |-> Inf, lo |-> sinrThreshold, hi |-> Inf],
       [levelLo |-> NegInf, levelHi |-> levelThreshold, lo |-> sinrThreshold, hi |-> Inf],
       [levelLo |-> levelThreshold, levelHi |-> Inf, lo |-> NegInf, hi |-> sinrThreshold],
       [levelLo |-> NegInf, levelHi |-> levelThreshold, lo |-> NegInf, hi |-> sinrThreshold] >>

\* 象限定义 of 覆盖系数四象限分析_按制式: 电平下限, 电平上限, 系数下限, 系数上限; the
\* coverage factor starts at 0
FactorQuadrantBounds(factorThreshold, levelThreshold) ==
    << [levelLo |-> levelThreshold, levelHi |-> Inf, lo |-> 0, hi |-> factorThreshold],
       [levelLo |-> NegInf, levelHi |-> levelThreshold, lo |-> 0, hi |-> factorThreshold],
       [levelLo |-> levelThreshold, levelHi |-> Inf, lo |-> factorThreshold, hi |-> Inf],
       [levelLo |-> NegInf, levelHi |-> levelThreshold, lo |-> factorThreshold, hi |-> Inf] >>

\* 象限数据: the rows of one quadrant, f being the second metric
QuadrantRows(rows, f, b) ==
    SelectSeq(rows, LAMBDA r : /\ InInterval(r.level, b.levelLo, b.levelHi)
                               /\ InInterval(r[f], b.lo, b.hi))

\* 象限统计: one row per quadrant that has members, in the order of 象限定义
QuadrantTable(frame, f, bounds) ==
    LET present == SelectSeq(<<1, 2, 3, 4>>,
                             LAMBDA k : Len(QuadrantRows(frame.rows, f, bounds[k])) > 0)
    IN  [i \in DOMAIN present |->
            LET members == QuadrantRows(frame.rows, f, bounds[present[i]])
            IN  [quadrant |-> present[i],
                 count |-> Len(members),
                 pct |-> Percent(Len(members), Len(frame.rows)),
                 cqiSum |-> SumSeq(Column(members, "cqi")),
                 dlSum |-> SumSeq(Column(members, "dl")),
                 levelSum |-> SumSeq(Column(members, "level"))]]

\* 覆盖阈值, SINR阈值
QuadrantAnalysis(frame, levelThreshold, sinrThreshold) ==
    [l \in DOMAIN GroupByStandard(frame) |->
        QuadrantTable(GroupByStandard(frame)[l], "sinr",
                      QuadrantBounds(levelThreshold, sinrThreshold))]

\* 覆盖系数阈值 (in 1/100), 覆盖电平阈值; a group without the 覆盖系数 column is skipped
FactorQuadrantAnalysis(frame, factorThreshold, levelThreshold) ==
    [l \in {g \in DOMAIN GroupByStandard(frame) : "cf" \in GroupByStandard(frame)[g].cols} |->
        QuadrantTable(GroupByStandard(frame)[l], "cf",
                      FactorQuadrantBounds(factorThreshold, levelThreshold))]

-----------------------------------------------------------------------------
(* The datasets of the classifiers: cells with the optional columns *)

\* the kinds of cell a surveyed dataset is made of: good-rate, coverage level, SINR,
\* TA, site distance, a coverage factor as the sheet may give it, overlap ratio
CellKinds ==
    << [cqi |-> 80, level |-> -100, sinr |-> 5, ta |-> 7, isd |-> 10, cf |-> 70,
        overlap |-> 20],
       [cqi |-> 80, level |-> -90, sinr |-> 15, ta |-> 0, isd |-> 10, cf |-> 0,
        overlap |-> NaN],
       [cqi |-> 85, level |-> -100, sinr |-> 15, ta |-> 7, isd |-> 10, cf |-> Text,
        overlap |-> 15],
       [cqi |-> 85, level |-> -90, sinr |-> 5, ta |-> 3, isd |-> 10, cf |-> -30,
        overlap |-> 10],
       [cqi |-> 90, level |-> -85, sinr |-> 20, ta |-> 10, isd |-> 0, cf |-> 100,
        overlap |-> NaN] >>

\* the 网络制式 column (none, one standard, the two standards alternating) and the
\* optional columns (none; site distance and overlap; coverage factor and overlap)
Layouts ==
    {<<"none", "plain">>, <<"none", "isd">>, <<"n41", "cf">>,
     <<"split", "isd">>, <<"split", "cf">>}

CellRow(i, mode, optional, k) ==
    [MakeRow(i,
             CASE mode = "none" -> NoStd
               [] mode = "n41" -> "n41"
               [] OTHER -> (IF i % 2 = 1 THEN "n41" ELSE "n28"),
             k.cqi, 5 + i, 2, k.level, k.sinr, k.ta, -110)
        EXCEPT !.isd = IF optional = "isd" THEN k.isd ELSE NaN,
               !.cf = IF optional = "cf" THEN k.cf ELSE NaN,
               !.overlap = IF optional = "plain" THEN NaN ELSE k.overlap]

CellFrame(mode, optional, kinds) ==
    [cols |-> BaseColumns \cup {"level"}
              \cup (IF mode = "none" THEN {} ELSE {"std"})
              \cup (CASE optional = "isd" -> {"isd", "overlap"}
                      [] optional = "cf" -> {"cf", "overlap"}
                      [] OTHER -> {}),
     rows |-> [i \in DOMAIN kinds |-> CellRow(i, mode, optional, CellKinds[kinds[i]])]]

CellFrames ==
    {CellFrame(layout[1], layout[2], kinds) :
        layout \in Layouts,
        kinds \in UNION {[1..n -> DOMAIN CellKinds] : n \in 0..MaxRows}}

\* Datasets long enough for the inflection detector: RowsPerSegment * MaxSeg rows
\* whose good-rate rises by 1 at each position of steps (at most two), so the
\* intervals of qcut can coincide or stay empty.  A dataset has a profile along
\* which the downlink rate rises, and has the 网络制式 column (all rows n41) or not
RateProfiles ==
    {<<"ramp", TRUE>>, <<"ramp", FALSE>>, <<"convex", FALSE>>, <<"step", TRUE>>,
     <<"plateau", FALSE>>}

BandRow(i, n, std, steps, profile) ==
    MakeRow(i, std, 80 + Cardinality({p \in steps : p < i}),
            CASE profile = "ramp" -> i
              [] profile = "convex" -> i * i
              [] profile = "step" -> (IF 2 * i <= n THEN 1 ELSE 5)
              [] OTHER -> (IF 3 * i <= n THEN 10 ELSE 20),
            1, -100 + (i % 4), 5 + ((i * i) % 7), i % 3, -110 + (i % 2))

BandFrame(n, steps, profile, hasStd) ==
    [cols |-> BaseColumns \cup {"level"} \cup (IF hasStd THEN {"std"} ELSE {}),
     rows |-> [i \in 1..n |->
                  BandRow(i, n, IF hasStd THEN "n41" ELSE NoStd, steps, profile)]]

BandFrames ==
    {BandFrame(RowsPerSegment * MaxSeg, steps, shape[1], shape[2]) :
        steps \in {st \in SUBSET (1..(RowsPerSegment * MaxSeg - 1)) : Cardinality(st) <= 2},
        shape \in RateProfiles}

-----------------------------------------------------------------------------
(* State machine of the classifiers: the same analyzer object, read from a survey *)

\* 读取数据, the file holding a dataset of cells
ReadCells ==
    /\ pc = "new"
    /\ \E frame \in CellFrames \cup BandFrames : rawData' = frame
    /\ pc' = "loaded"
    /\ result' = Returned("read", <<>>, TRUE)
    /\ UNCHANGED cleanedData

\* 贡献度分析_按制式
CallContributionAnalysis ==
    /\ pc = "cleaned"
    /\ result' = Returned("contribution", <<>>, ContributionAnalysis(cleanedData))
    /\ pc' = "returned"
    /\ UNCHANGED <<rawData, cleanedData>>

\* CQI速率拐点分析_按制式
CallInflectionAnalysis ==
    /\ pc = "cleaned"
    /\ \E q \in 1..MaxSeg :
          /\ result' = Outcome("inflection", <<q>>, InflectionAnalysis(cleanedData, q))
          /\ cleanedData' = [cleanedData EXCEPT !.cols = InflectionColumns(cleanedData, q)]
    /\ pc' = "returned"
    /\ UNCHANGED rawData

\* the CQI阈值 arguments: None, or a mapping of some of the standards
ThresholdValues == {80, 90}

ThresholdArgs ==
    {NoThresholds} \cup
    {[given |-> TRUE, map |-> m] :
        m \in UNION {[d -> ThresholdValues] : d \in SUBSET Standards}}

\* CQI不达标根因分析_按制式
CallRootCauseAnalysis ==
    /\ pc = "cleaned"
    /\ \E thresholds \in ThresholdArgs :
          result' = Returned("rootCause", <<thresholds>>,
                             RootCauseAnalysis(cleanedData, thresholds))
    /\ pc' = "returned"
    /\ UNCHANGED <<rawData, cleanedData>>

\* 四象限分析_按制式
CallQuadrantAnalysis ==
    /\ pc = "cleaned"
    /\ \E levelThreshold \in {-90, -95}, sinrThreshold \in {15, 10} :
          result' = Returned("quadrant", <<levelThreshold, sinrThreshold>>,
                             QuadrantAnalysis(cleanedData, levelThreshold, sinrThreshold))
    /\ pc' = "returned"
    /\ UNCHANGED <<rawData, cleanedData>>

\* 覆盖系数四象限分析_按制式
CallFactorQuadrantAnalysis ==
    /\ pc = "cleaned"
    /\ \E factorThreshold \in {70, 65}, levelThreshold \in {-90} :
          result' = Returned("factorQuadrant", <<factorThreshold, levelThreshold>>,
                             FactorQuadrantAnalysis(cleanedData, factorThreshold,
                                                    levelThreshold))
    /\ pc' = "returned"
    /\ UNCHANGED <<rawData, cleanedData>>

NextCells ==
    \/ ReadCells
    \/ CleanData
    \/ DiscardResult
    \/ CallContributionAnalysis
    \/ CallInflectionAnalysis
    \/ CallRootCauseAnalysis
    \/ CallQuadrantAnalysis
    \/ CallFactorQuadrantAnalysis

SpecCells == Init /\ [][NextCells]_vars

-----------------------------------------------------------------------------
(* 分析CQI对速率影响_按制式 *)

RateColumns == <<"dl", "ul">>

\* one entry of 结果[制式]: 相关系数, P值, 显著性, 强度
RateImpactEntry(frame, f) ==
    LET c == Correlate("cqi", f, frame.rows)
    IN  [coef |-> c.coef, p |-> c.p,
         significant |-> c.p.lt05,
         strength |-> JudgeStrength(IF c.coef.kind = "nan" THEN NaN ELSE c.coef.abs)]

\* 相关性['P值'] < 0.05 and abs(相关性['相关系数']) on {"相关系数": None, "P值": None}
\* raise TypeError; nothing in the method catches it
RateImpactRaises(frame) ==
    \E i \in DOMAIN RateColumns :
        Correlate("cqi", RateColumns[i], frame.rows).p.kind = "None"

RateImpact(frame) ==
    LET groups == GroupByStandard(frame)
    IN  IF \E l \in DOMAIN groups : RateImpactRaises(groups[l])
        THEN [raised |-> "TypeError", value |-> <<>>]
        ELSE [raised |-> "none",
              value |-> [l \in DOMAIN groups |->
                  [f \in {"dl", "ul"} |-> RateImpactEntry(groups[l], f)]]]

-----------------------------------------------------------------------------
(* 多维度分层分析_按制式 and _计算相关性 *)

\* "if len(档位数据) > 5"
MinBandRows == 5

\* "if len(有效数据) > 10"
MinBandCorrSamples == 10

HelperCorrelationAsCorrelate(rows, f1, f2) == Correlate(f1, f2, rows).coef

\* _计算相关性: the coefficient of pearsonr over the rows complete in both fields when
\* there are more than 10 of them, None otherwise and on any exception
HelperCorrelation(rows, f1, f2) ==
    LET valid == DropNa(rows, {f1, f2})
    IN  IF Len(valid) > MinBandCorrSamples
        THEN (IF \E i \in DOMAIN valid : valid[i][f1] = Text \/ valid[i][f2] = Text
              THEN NoneCoef
              ELSE Pearson(Column(valid, f1), Column(valid, f2)).coef)
        ELSE NoneCoef

\* 维度: 覆盖系数, TA, 覆盖电平; anything else is skipped for every group
LayerDimensions == {"cf", "ta", "level"}

\* the default 阈值 of a dimension (覆盖系数 in 1/100)
LayerDefaults(dimension) ==
    CASE dimension = "cf" -> <<30, 70, 100, 200>>
      [] dimension = "ta" -> <<300, 600, 1000, 1500, 2000, 2500, 3000, 3500, 4000>>
      [] OTHER -> <<-95, -85>>

\* the lower bound of the first band: 0, and -inf for the coverage level
LayerFloor(dimension) == IF dimension = "level" THEN NegInf ELSE 0

\* 分档阈值 = None
NoLayers == [given |-> FALSE, list |-> <<>>]

\* "阈值 = 分档阈值 if 分档阈值 else [...]": None and the empty list give the default
LayerThresholds(dimension, thresholds) ==
    IF thresholds.given /\ thresholds.list # <<>>
    THEN thresholds.list
    ELSE LayerDefaults(dimension)

\* 档位定义 indexes 阈值[0] .. 阈值[n - 1], n being the length of the default list: a
\* shorter list raises IndexError, the elements beyond n of a longer one are unused
LayerRaises(dimension, thresholds) ==
    Len(LayerThresholds(dimension, thresholds)) < Len(LayerDefaults(dimension))

\* 档位定义: (下限, 上限) of each band
LayerBands(dimension, list) ==
    LET n == Len(LayerDefaults(dimension))
    IN  [k \in 1..(n + 1) |->
            [lo |-> IF k = 1 THEN LayerFloor(dimension) ELSE list[k - 1],
             hi |-> IF k = n + 1 THEN Inf ELSE list[k]]]

\* 档位数据: 数据[(数据[字段名] > 下限) & (数据[字段名] <= 上限)]
LayerMembers(rows, dimension, b) ==
    SelectSeq(rows, LAMBDA r : InInterval(r[dimension], b.lo, b.hi))

\* the correlations a row of the dimension carries
LayerCorrelations(dimension) ==
    IF dimension = "level" THEN {"sinr"} ELSE {"level", "sinr"}

\* 行: 档位, 样本数, the means (as sums) and the correlations with CQI优良率
LayerRow(members, dimension, k) ==
    [band |-> k,
     count |-> Len(members),
     cqiSum |-> SumSeq(Column(members, "cqi")),
     dlSum |-> SumSeq(Column(members, "dl")),
     ulSum |-> SumSeq(Column(members, "ul")),
     levelSum |-> SumSeq(Column(members, "level")),
     sinrSum |-> SumSeq(Column(members, "sinr")),
     corr |-> [f \in LayerCorrelations(dimension) |-> HelperCorrelation(members, f, "cqi")]]

\* 分档结果 of one group: the bands with more than 5 rows, in the order of 档位定义
LayerTable(frame, dimension, list) ==
    LET bands == LayerBands(dimension, list)
        kept == SelectSeq([k \in DOMAIN bands |-> k],
                          LAMBDA k : Len(LayerMembers(frame.rows, dimension, bands[k]))
                                        > MinBandRows)
    IN  [i \in DOMAIN kept |->
            LayerRow(LayerMembers(frame.rows, dimension, bands[kept[i]]),
                     dimension, kept[i])]

\* 维度, 分档阈值: a group without the column of the dimension is skipped
LayeredAnalysis(frame, dimension, thresholds) ==
    LET groups == GroupByStandard(frame)
        labels == {l \in DOMAIN groups :
                      dimension \in LayerDimensions /\ dimension \in groups[l].cols}
    IN  IF labels # {} /\ LayerRaises(dimension, thresholds)
        THEN [raised |-> "IndexError", value |-> <<>>]
        ELSE [raised |-> "none",
              value |-> [l \in labels |->
                  LayerTable(groups[l], dimension, LayerThresholds(dimension, thresholds))]]

-----------------------------------------------------------------------------
(* 覆盖系数统计_按制式 and 按覆盖区域分组统计 *)

HasFactorColumnAlways(frame) == TRUE

\* "if '覆盖系数' not in 数据.columns: continue"
HasFactorColumn(frame) == "cf" \in frame.cols

\* 样本数 and the three counts of the grading, over the non-null coverage factors
\* (in 1/100); a group without the 覆盖系数 column is skipped
CoverageFactorStats(frame) ==
    LET groups == GroupByStandard(frame)
        values(l) == SelectSeq(Column(groups[l].rows, "cf"), LAMBDA v : v # NaN)
    IN  [l \in {g \in DOMAIN groups : HasFactorColumn(groups[g])} |->
            [samples |-> Len(values(l)),
             near |-> Len(SelectSeq(values(l), LAMBDA v : v < 30)),
             moderate |-> Len(SelectSeq(values(l), LAMBDA v : v >= 30 /\ v <= 65)),
             over |-> Len(SelectSeq(values(l), LAMBDA v : v > 65))]]

\* a missing 覆盖区域
NoArea == "NaN"

\* {} without the 覆盖区域 column; else one entry per value of the column (a missing
\* value equals no row): 数据量, the means (as sums), and whether 平均重叠覆盖 and
\* 平均覆盖系数 are computed (None without their column)
AreaStats(frame) ==
    IF "area" \notin frame.cols THEN <<>>
    ELSE [a \in {frame.rows[i].area : i \in DOMAIN frame.rows} |->
            LET members == SelectSeq(frame.rows, LAMBDA r : r.area = a /\ a # NoArea)
            IN  [count |-> Len(members),
                 cqiSum |-> SumSeq(Column(members, "cqi")),
                 dlSum |-> SumSeq(Column(members, "dl")),
                 ulSum |-> SumSeq(Column(members, "ul")),
                 hasOverlap |-> "overlap" \in frame.cols,
                 hasFactor |-> "cf" \in frame.cols]]

-----------------------------------------------------------------------------
(* The datasets of a session: one large group, with or without a small second one *)

\* the rows of the large group
SessionRows == MinQuantileRows + 2

\* the positions at which the good-rate rises by 1: constant, two values, four values,
\* all distinct
SessionSteps == {{}, {6}, {3, 6, 9}, 1..(SessionRows - 1)}

\* optional "full": site distance, overlap ratio and coverage area are there
SessionRow(i, std, steps, profile, optional) ==
    LET r == MakeRow(i, std, 80 + Cardinality({p \in steps : p < i}),
                     IF profile = "ramp" THEN i
                     ELSE (IF 3 * i <= SessionRows THEN 10 ELSE 20),
                     1 + (i % 2), -100 + (i % 4), 5 + ((i * i) % 7), 1 + (i % 3),
                     -110 + (i % 2))
    IN  IF optional = "full"
        THEN [f \in DOMAIN r \cup {"area"} |->
                 CASE f = "area" -> (IF i % 2 = 1 THEN "urban" ELSE "rural")
                   [] f = "isd" -> 50
                   [] f = "overlap" -> 10 + 5 * (i % 3)
                   [] OTHER -> r[f]]
        ELSE r

\* mode "none": no 网络制式 column; "n41": one standard; "mixed": extra rows of n28
\* after the rows of n41
SessionFrame(steps, profile, mode, extra, optional) ==
    [cols |-> BaseColumns \cup {"level"}
              \cup (IF mode = "none" THEN {} ELSE {"std"})
              \cup (IF optional = "full" THEN {"isd", "overlap", "area"} ELSE {}),
     rows |-> [i \in 1..(SessionRows + extra) |->
                  SessionRow(i,
                             IF mode = "none" THEN NoStd
                             ELSE IF i <= SessionRows THEN "n41" ELSE "n28",
                             steps, profile, optional)]]

SessionFrames ==
    {SessionFrame(steps, profile, shape[1], shape[2], optional) :
        steps \in SessionSteps,
        profile \in {"ramp", "plateau"},
        shape \in {<<"none", 0>>, <<"n41", 0>>, <<"mixed", 1>>, <<"mixed", 2>>},
        optional \in {"plain", "full"}}

-----------------------------------------------------------------------------
(* State machine of a session: every analysis on one analyzer object *)

\* 读取数据
ReadSession ==
    /\ pc = "new"
    /\ \E frame \in SessionFrames : rawData' = frame
    /\ pc' = "loaded"
    /\ result' = Returned("read", <<>>, TRUE)
    /\ UNCHANGED cleanedData

\* 分析CQI对速率影响_按制式
CallRateImpact ==
    /\ pc = "cleaned"
    /\ result' = Outcome("rateImpact", <<>>, RateImpact(cleanedData))
    /\ pc' = "returned"
    /\ UNCHANGED <<rawData, cleanedData>>

\* the 分档阈值 arguments: None, or a list of any length
LayerLists ==
    {<<>>, <<-99>>, <<-99, -98>>, <<4, 6, 100, 200>>, <<2, 3, 4, 5, 6, 7, 8, 9, 10>>}

LayerArgs == {NoLayers} \cup {[given |-> TRUE, list |-> list] : list \in LayerLists}

\* 多维度分层分析_按制式
CallLayeredAnalysis ==
    /\ pc = "cleaned"
    /\ \E dimension \in LayerDimensions \cup {"sinr"}, thresholds \in LayerArgs :
          result' = Outcome("layered", <<dimension, thresholds>>,
                            LayeredAnalysis(cleanedData, dimension, thresholds))
    /\ pc' = "returned"
    /\ UNCHANGED <<rawData, cleanedData>>

\* 覆盖系数统计_按制式
CallCoverageFactorStats ==
    /\ pc = "cleaned"
    /\ result' = Returned("factorStats", <<>>, CoverageFactorStats(cleanedData))
    /\ pc' = "returned"
    /\ UNCHANGED <<rawData, cleanedData>>

\* 按覆盖区域分组统计
CallAreaStats ==
    /\ pc = "cleaned"
    /\ result' = Returned("areaStats", <<>>, AreaStats(cleanedData))
    /\ pc' = "returned"
    /\ UNCHANGED <<rawData, cleanedData>>

NextSession ==
    \/ ReadSession
    \/ CleanData
    \/ DiscardResult
    \/ CallGroupByStandard
    \/ CallRankFactors
    \/ CallQuantileRateAnalysis
    \/ CallGroupAnalysis
    \/ CallContributionAnalysis
    \/ CallInflectionAnalysis
    \/ CallRootCauseAnalysis
    \/ CallFactorQuadrantAnalysis
    \/ CallRateImpact
    \/ CallLayeredAnalysis
    \/ CallCoverageFactorStats
    \/ CallAreaStats

SpecSession == Init /\ [][NextSession]_vars

-----------------------------------------------------------------------------
(* Properties *)

Cleaned == pc \in {"cleaned", "returned"}

Called(op) == pc = "returned" /\ result.op = op

\* the positions in the cleaned data of the rows of the group labelled l
RowsOfLabel(l) ==
    {i \in DOMAIN cleanedData.rows :
        IF "std" \in cleanedData.cols THEN cleanedData.rows[i].std = l ELSE l = "all"}

CountNonNull(rows, fields) ==
    Cardinality({i \in DOMAIN rows : \A f \in fields : rows[i][f] # NaN})

\* C1: the groups 按网络制式分组 returns are pairwise disjoint and their union is the
\* cleaned dataset: every cleaned record is in exactly one group, keyed by its
\* network standard, or in the single group "all" when the data has no such column.
C1_PartitionIsDisjointCover ==
    Called("group") =>
        LET g == result.value
        IN  /\ \A a, b \in DOMAIN g :
                  a # b => IdxSet(g[a].rows) \cap IdxSet(g[b].rows) = {}
            /\ UNION {IdxSet(g[l].rows) : l \in DOMAIN g} = IdxSet(cleanedData.rows)
            /\ \A i \in DOMAIN cleanedData.rows :
                  Cardinality({l \in DOMAIN g :
                      \E j \in DOMAIN g[l].rows : g[l].rows[j] = cleanedData.rows[i]}) = 1
            /\ \A l \in DOMAIN g : Len(g[l].rows) = Cardinality(IdxSet(g[l].rows))
            /\ IF "std" \in cleanedData.cols
               THEN \A l \in DOMAIN g : \A j \in DOMAIN g[l].rows : g[l].rows[j].std = l
               ELSE DOMAIN g = {"all"} /\ g["all"] = cleanedData

C1_Witness ==
    /\ Called("group")
    /\ DOMAIN result.value = {"n41", "n28"}
    /\ \A l \in DOMAIN result.value : Len(result.value[l].rows) >= 1
    /\ Len(cleanedData.rows) < Len(rawData.rows)

\* C2: 清洗数据 keeps exactly the raw records with no null in a required field (the
\* seven metrics, and the network standard when that column exists), unchanged and
\* in order, and returns normally, also when no record is left.
C2_CleanerKeepsExactlyComplete ==
    Cleaned =>
        LET required == {"cqi", "dl", "ul", "level", "sinr", "ta", "intf"}
            complete(r) == /\ \A f \in required : r[f] # NaN
                           /\ ("std" \in rawData.cols => r.std # NoStd)
        IN  /\ \A i \in DOMAIN cleanedData.rows : complete(cleanedData.rows[i])
            /\ IdxSet(cleanedData.rows) =
                   {rawData.rows[i].idx : i \in {j \in DOMAIN rawData.rows :
                                                    complete(rawData.rows[j])}}
            /\ \A i \in DOMAIN cleanedData.rows :
                   cleanedData.rows[i] = rawData.rows[cleanedData.rows[i].idx]
            /\ \A i, j \in DOMAIN cleanedData.rows :
                   i < j => cleanedData.rows[i].idx < cleanedData.rows[j].idx
            /\ (result.op = "clean" => result.raised = "none" /\ result.value = TRUE)

C2_Witness ==
    /\ pc = "cleaned"
    /\ result.op = "clean"
    /\ "std" \in rawData.cols
    /\ Len(cleanedData.rows) >= 1
    /\ \E i \in DOMAIN rawData.rows : rawData.rows[i].std = NoStd
    /\ \E i \in DOMAIN rawData.rows : rawData.rows[i].cqi = NaN

\* the number of rows of the subset a correlate call was given that are non-null in
\* both fields
CorrelateValid == CountNonNull(Subset(result.args[3]), {result.args[1], result.args[2]})

\* C3: 计算相关性_按制式 on data with fewer than 3 rows non-null in both fields returns
\* the undefined result (coefficient None, p-value None) and does not raise.
C3_FewerThanThreeIsUndefined ==
    (Called("correlate") /\ CorrelateValid < 3) =>
        /\ result.raised = "none"
        /\ result.value = [coef |-> NoneCoef, p |-> NoneP]
        /\ result.value.coef.kind = "None"
        /\ result.value.p.kind = "None"

C3_Witness ==
    /\ Called("correlate")
    /\ CorrelateValid = 2
    /\ result.value.coef.kind = "None"

\* whether a field is constant over the rows non-null in both fields of the call
ConstantField(f) ==
    LET rows == Subset(result.args[3])
        ok == {i \in DOMAIN rows :
                  rows[i][result.args[1]] # NaN /\ rows[i][result.args[2]] # NaN}
    IN  \A i, j \in ok : rows[i][f] = rows[j][f]

\* C4 (as claimed): 计算相关性_按制式 with at least 3 valid rows and a field of zero
\* variance returns the undefined result (None, None), never a NaN coefficient.
C4_DegenerateIsUndefined ==
    (Called("correlate") /\ CorrelateValid >= 3
        /\ (ConstantField(result.args[1]) \/ ConstantField(result.args[2]))) =>
        /\ result.raised = "none"
        /\ result.value.coef.kind = "None"
        /\ result.value.p.kind = "None"

PresentCandidateSet ==
    {"level", "sinr", "ta", "intf", "prbUl", "prbDl", "cf", "overlap"} \cap cleanedData.cols

\* C6 (as claimed): 分析影响CQI的指标_按制式 returns, for every group, one entry per
\* candidate field present, ordered by descending absolute coefficient; a candidate
\* whose correlation is undefined is in the output with a null coefficient and does
\* not make the operation fail.
C6_RankKeepsUndefinedEntries ==
    Called("rank") =>
        /\ result.raised = "none"
        /\ DOMAIN result.value = {l \in Standards \cup {"all"} : RowsOfLabel(l) # {}
                                      \/ (l = "all" /\ "std" \notin cleanedData.cols)}
        /\ \A l \in DOMAIN result.value :
              LET e == result.value[l]
              IN  /\ {e[i].field : i \in DOMAIN e} = PresentCandidateSet
                  /\ Len(e) = Cardinality(PresentCandidateSet)
                  /\ \A i \in DOMAIN e :
                        Cardinality(RowsOfLabel(l)) < 3 => e[i].coef.kind = "None"
                  /\ \A i, j \in DOMAIN e :
                        (i < j /\ e[i].coef.kind = "num" /\ e[j].coef.kind = "num")
                            => e[i].coef.r2 >= e[j].coef.r2

\* the tables of a quantile call and the valid rows (non-null in CQI and both rates)
\* of the group a table is for
ValidOfLabel(l) ==
    {i \in RowsOfLabel(l) : \A f \in {"cqi", "dl", "ul"} : cleanedData.rows[i][f] # NaN}

RECURSIVE SumCounts(_)
SumCounts(t) == IF t = <<>> THEN 0 ELSE Head(t).count + SumCounts(Tail(t))

\* C7: for every group CQI分位数速率分析_按制式 reports, the band sample counts sum to
\* the number of valid rows of the group, and there are at most as many bands as
\* requested.
C7_BandCountsSumToValidRows ==
    (Called("quantile") /\ result.raised = "none") =>
        \A l \in DOMAIN result.value :
            /\ SumCounts(result.value[l]) = Cardinality(ValidOfLabel(l))
            /\ Len(result.value[l]) <= result.args[1]
            /\ Len(result.value[l]) >= 1

C7_Witness ==
    /\ Called("quantile")
    /\ result.raised = "none"
    /\ DOMAIN result.value = {"n41"}
    /\ \E i \in DOMAIN cleanedData.rows : cleanedData.rows[i].std = "n28"
    /\ result.args[1] = 5
    /\ Len(result.value["n41"]) = 5
    /\ \E k \in 1..5 : result.value["n41"][k].count = 0

\* the distinct CQI good-rates of a set of rows of the cleaned data
CqiValues(rows) == {cleanedData.rows[i].cqi : i \in rows}

\* a group the banding call works on in which ties leave fewer distinct
\* equal-frequency boundaries than the band count asks for
TiesReduceBands(l, q) ==
    /\ \E i, j \in RowsOfLabel(l) :
          i # j /\ cleanedData.rows[i].cqi = cleanedData.rows[j].cqi
    /\ Len(QCutBins([i \in 1..Len(GroupByStandard(cleanedData)[l].rows) |->
                        GroupByStandard(cleanedData)[l].rows[i].cqi], q)) < q + 1

\* C8 (as claimed): when ties in the CQI values of a group leave fewer distinct
\* equal-frequency boundaries than the requested band count, CQI分位数速率分析_按制式
\* and 按CQI分组分析_按制式 do not raise: they return a table with fewer bands.
C8_TiesReduceBandsWithoutError ==
    /\ (Called("quantile")
          /\ \E l \in Standards \cup {"all"} :
                /\ Cardinality(ValidOfLabel(l)) >= 10
                /\ TiesReduceBands(l, result.args[1]))
       => result.raised = "none"
    /\ (Called("groupAnalysis")
          /\ \E l \in Standards \cup {"all"} : TiesReduceBands(l, result.args[1]))
       => result.raised = "none"

\* C9 (as claimed): when the lowest band's mean of a rate is 0, the uplift of that
\* rate is undefined (null, NaN in a float column) for every band, never infinite.
C9_ZeroBaseUpliftIsNull ==
    (Called("quantile") /\ result.raised = "none") =>
        \A l \in DOMAIN result.value :
            LET t == result.value[l]
            IN  /\ (t[1].hasUplift /\ t[1].count > 0 /\ t[1].dlSum = 0)
                      => \A k \in DOMAIN t : t[k].dlUplift.kind = "nan"
                /\ (t[1].hasUplift /\ t[1].count > 0 /\ t[1].ulSum = 0)
                      => \A k \in DOMAIN t : t[k].ulUplift.kind = "nan"

\* a group of n valid rows with n distinct CQI good-rates, n a multiple of q
DistinctDivisible(l, q) ==
    /\ Cardinality(ValidOfLabel(l)) >= 10
    /\ Cardinality(CqiValues(ValidOfLabel(l))) = Cardinality(ValidOfLabel(l))
    /\ Cardinality(ValidOfLabel(l)) % q = 0

ZeroUplift == [kind |-> "num", val |-> 0]

-----------------------------------------------------------------------------
(* Properties of the contribution ranking and the inflection detector *)

\* the labels of the groups of the cleaned data
GroupLabels ==
    {l \in Standards \cup {"all"} :
        IF "std" \in cleanedData.cols THEN RowsOfLabel(l) # {} ELSE l = "all"}

\* the rows of the group labelled l, in the order of the cleaned data
GroupRows(l) ==
    SelectSeq(cleanedData.rows,
              LAMBDA r : IF "std" \in cleanedData.cols THEN r.std = l ELSE l = "all")

RECURSIVE SumVal(_)
SumVal(list) == IF list = <<>> THEN 0 ELSE Head(list).contribution.val + SumVal(Tail(list))

\* C11 (as claimed): for every group, the 贡献度(%) of the entries of the ranked list
\* 贡献度分析_按制式 returns sum to 100, or the list is empty.  (The values are |r|
\* in thousandths rounded down, so a sum of 100 % is a sum in (1000 - length, 1000].)
C11_ContributionsSumTo100 ==
    Called("contribution") =>
        \A l \in DOMAIN result.value :
            LET list == result.value[l].list
            IN  list = <<>>
                \/ (1000 - Len(list) < SumVal(list) /\ SumVal(list) <= 1000)

\* C12: for every group with a non-empty ranked list, 累积贡献度(%) is non-decreasing
\* along the list, lies in (0, 100] for every entry and is 100 at the last entry.
C12_CumulativeReaches100 ==
    Called("contribution") =>
        \A l \in DOMAIN result.value :
            LET list == result.value[l].list
            IN  list # <<>> =>
                  /\ \A i \in DOMAIN list :
                        /\ list[i].cumulative.den > 0
                        /\ list[i].cumulative.num > 0
                        /\ list[i].cumulative.num <= 100 * list[i].cumulative.den
                  /\ \A i, j \in DOMAIN list :
                        i < j => /\ list[i].cumulative.den = list[j].cumulative.den
                                 /\ list[i].cumulative.num <= list[j].cumulative.num
                  /\ list[Len(list)].cumulative.num = 100 * list[Len(list)].cumulative.den

C12_Witness ==
    /\ Called("contribution")
    /\ \E l \in DOMAIN result.value :
          /\ Len(result.value[l].list) >= 3
          /\ result.value[l].list[1].cumulative.num
                < 50 * result.value[l].list[1].cumulative.den
          /\ result.value[l].list[1].contribution.val
                > result.value[l].list[2].contribution.val

\* the rows of group l non-null in candidate f and in the good-rate
PairedRows(l, f) == SelectSeq(GroupRows(l), LAMBDA r : r[f] # NaN /\ r.cqi # NaN)

\* n * sum(gh) - sum(g) * sum(h) over the rows of group l paired for candidate f:
\* the covariance of the columns g and h up to the factor n^2
PairedCov(l, f, g, h) ==
    Len(PairedRows(l, f)) * SumProd(Column(PairedRows(l, f), g), Column(PairedRows(l, f), h))
    - SumSeq(Column(PairedRows(l, f), g)) * SumSeq(Column(PairedRows(l, f), h))

\* candidate f has a contribution that is defined and greater than 0 in group l
HasContribution(l, f) ==
    /\ f \in cleanedData.cols
    /\ Len(PairedRows(l, f)) >= 3
    /\ \A i \in DOMAIN PairedRows(l, f) : PairedRows(l, f)[i][f] \notin {Text, Inf, NegInf}
    /\ PairedCov(l, f, f, "cqi") # 0

CandidateIndex(f) == CHOOSE i \in DOMAIN Candidates : Candidates[i] = f

\* C13: the ranked list of a group holds exactly the candidates whose contribution is
\* defined and greater than 0 (no candidate with fewer than 3 paired rows, a failed
\* or NaN correlation, or zero correlation), by descending contribution, candidates
\* of equal contribution in the order of the candidate list.
C13_RankedListExactAndStable ==
    Called("contribution") =>
        /\ DOMAIN result.value = GroupLabels
        /\ \A l \in DOMAIN result.value :
              LET list == result.value[l].list
              IN  /\ {list[i].field : i \in DOMAIN list}
                        = {Candidates[i] : i \in {j \in DOMAIN Candidates :
                                                    HasContribution(l, Candidates[j])}}
                  /\ \A i, j \in DOMAIN list : i # j => list[i].field # list[j].field
                  /\ \A i \in DOMAIN list :
                        /\ list[i].coef.kind = "num"
                        /\ list[i].contribution.kind = "num"
                        /\ list[i].contribution.num
                              = PairedCov(l, list[i].field, list[i].field, "cqi")
                                * PairedCov(l, list[i].field, list[i].field, "cqi")
                        /\ list[i].contribution.den
                              = PairedCov(l, list[i].field, list[i].field, list[i].field)
                                * PairedCov(l, list[i].field, "cqi", "cqi")
                  /\ \A i, j \in DOMAIN list :
                        i < j =>
                          /\ ~ContributionLess(list[i], list[j])
                          /\ (~ContributionLess(list[j], list[i])
                                => CandidateIndex(list[i].field) < CandidateIndex(list[j].field))

C13_Witness ==
    /\ Called("contribution")
    /\ \E l \in DOMAIN result.value :
          LET list == result.value[l].list
          IN  /\ Len(list) >= 3
              /\ \E i \in DOMAIN list :
                    /\ i < Len(list)
                    /\ ~ContributionLess(list[i + 1], list[i])
                    /\ list[i].field = "level" /\ list[i + 1].field = "sinr"
              /\ \E i \in DOMAIN list : ContributionLess(list[Len(list)], list[i])
              /\ \E f \in cleanedData.cols :
                    /\ f \in {"cf", "overlap"}
                    /\ \A i \in DOMAIN list : list[i].field # f
              /\ "intf" \in cleanedData.cols
              /\ \A i \in DOMAIN list : list[i].field # "intf"

\* the second difference of the mean downlink rate at row k of a returned table is
\* defined
HasSlopeChange(t, k) ==
    k >= 3 /\ t[k].count > 0 /\ t[k - 1].count > 0 /\ t[k - 2].count > 0

\* second difference at row k, times the three counts
SlopeNum(t, k) ==
    t[k].dlSum * t[k - 1].count * t[k - 2].count
    - 2 * t[k - 1].dlSum * t[k].count * t[k - 2].count
    + t[k - 2].dlSum * t[k].count * t[k - 1].count

SlopeDen(t, k) == t[k].count * t[k - 1].count * t[k - 2].count

\* C14 (as claimed): CQI速率拐点分析_按制式 returns; for a group whose table has at
\* least 3 bands exactly one band is flagged as the inflection, a band whose second
\* difference of the mean rate is the maximum over the bands; for a table of fewer
\* than 3 bands the inflection is none.
C14_OneInflectionAtMaxSecondDifference ==
    Called("inflection") =>
        /\ result.raised = "none"
        /\ \A l \in DOMAIN result.value :
              LET t == result.value[l].table
                  k == result.value[l].inflection
              IN  IF Len(t) >= 3
                  THEN /\ result.value[l].flagged = {k}
                       /\ k \in DOMAIN t
                       /\ HasSlopeChange(t, k)
                       /\ \A j \in DOMAIN t :
                             HasSlopeChange(t, j) =>
                                SlopeNum(t, j) * SlopeDen(t, k)
                                   <= SlopeNum(t, k) * SlopeDen(t, j)
                  ELSE k = 0 /\ result.value[l].flagged = {}

-----------------------------------------------------------------------------
(* Properties of the root-cause and the quadrant classifiers *)

\* the positions of the rows of group l whose good-rate is below / at least t
BelowThreshold(l, t) == {i \in RowsOfLabel(l) : cleanedData.rows[i].cqi < t}

AtLeastThreshold(l, t) == {i \in RowsOfLabel(l) : cleanedData.rows[i].cqi >= t}

\* C15: in CQI不达标根因分析_按制式 a record is failing exactly when its good-rate is
\* strictly below the group's threshold (a record at the threshold passes); a group
\* without failing record gets a failure ratio of 0 and an empty cause table.
C15_FailingIsStrictlyBelow ==
    Called("rootCause") =>
        \A l \in DOMAIN result.value :
            LET v == result.value[l]
            IN  IF BelowThreshold(l, v.threshold) = {}
                THEN v = [causes |-> <<>>, ratio |-> ZeroPercent, threshold |-> v.threshold]
                ELSE /\ "failing" \in DOMAIN v
                     /\ v.failing = Cardinality(BelowThreshold(l, v.threshold))
                     /\ v.ratio.num > 0

C15_Witness ==
    /\ Called("rootCause")
    /\ \E l \in DOMAIN result.value :
          /\ result.value[l].ratio = ZeroPercent
          /\ result.value[l].causes = <<>>
          /\ \E i \in RowsOfLabel(l) : cleanedData.rows[i].cqi = result.value[l].threshold
    /\ \E l \in DOMAIN result.value :
          /\ "failing" \in DOMAIN result.value[l]
          /\ \E i \in RowsOfLabel(l) : cleanedData.rows[i].cqi = result.value[l].threshold

\* the failing rows of group l that match a rule, the rules read off the data
FailingWith(l, t, coverage, interference) ==
    {i \in BelowThreshold(l, t) :
        /\ (coverage => cleanedData.rows[i].level < -95)
        /\ (interference => cleanedData.rows[i].sinr < 10)}

\* C16: for a group with a failing record, each of the five cause rows counts failing
\* records only and its percentage is count / failing count x 100, in [0, 100]; the
\* rules are counted independently, and the combined count is the number of failing
\* records matching both the coverage rule (level < -95) and the interference rule
\* (SINR < 10), hence at most each of the two counts.
C16_CauseRowsCountFailingOnly ==
    Called("rootCause") =>
        \A l \in DOMAIN result.value :
            LET v == result.value[l]
            IN  "failing" \in DOMAIN v =>
                  /\ Len(v.causes) = 5
                  /\ \A k \in 1..5 :
                        /\ v.causes[k].count >= 0
                        /\ v.causes[k].count <= v.failing
                        /\ v.causes[k].pct = [num |-> v.causes[k].count * 100,
                                              den |-> v.failing]
                        /\ v.causes[k].pct.num >= 0
                        /\ v.causes[k].pct.num <= 100 * v.causes[k].pct.den
                  /\ v.causes[1].count
                        = Cardinality(FailingWith(l, v.threshold, TRUE, FALSE))
                  /\ v.causes[2].count
                        = Cardinality(FailingWith(l, v.threshold, FALSE, TRUE))
                  /\ v.causes[3].count
                        = Cardinality({i \in BelowThreshold(l, v.threshold) :
                              /\ "cf" \in cleanedData.cols
                              /\ cleanedData.rows[i].cf # NaN
                              /\ cleanedData.rows[i].cf > 65})
                  /\ v.causes[4].count
                        = Cardinality(FailingWith(l, v.threshold, TRUE, TRUE))
                  /\ v.causes[5].count
                        = Cardinality({i \in BelowThreshold(l, v.threshold) :
                              /\ "overlap" \in cleanedData.cols
                              /\ cleanedData.rows[i].overlap # NaN
                              /\ cleanedData.rows[i].overlap >= 15})
                  /\ v.causes[4].count <= v.causes[1].count
                  /\ v.causes[4].count <= v.causes[2].count

C16_Witness ==
    /\ Called("rootCause")
    /\ \E l \in DOMAIN result.value :
          LET v == result.value[l]
          IN  /\ "failing" \in DOMAIN v
              /\ v.failing >= 2
              /\ v.failing < Cardinality(RowsOfLabel(l))
              /\ v.causes[4].count >= 1
              /\ v.causes[4].count < v.causes[1].count
              /\ v.causes[3].count >= 1
              /\ v.causes[1].count + v.causes[2].count + v.causes[3].count
                    + v.causes[4].count + v.causes[5].count > v.failing

\* C17: for a group with a failing record, the passing rows (good-rate >= threshold)
\* and the failing rows (good-rate < threshold) partition the group, the reported
\* failing count plus the passing count is the reported total, and the failure ratio
\* is failing count / total x 100, in (0, 100].
C17_FailingAndPassingPartition ==
    Called("rootCause") =>
        \A l \in DOMAIN result.value :
            LET v == result.value[l]
                failing == BelowThreshold(l, v.threshold)
                passing == AtLeastThreshold(l, v.threshold)
            IN  "failing" \in DOMAIN v =>
                  /\ failing \cup passing = RowsOfLabel(l)
                  /\ failing \cap passing = {}
                  /\ v.failing = Cardinality(failing)
                  /\ v.total = Cardinality(RowsOfLabel(l))
                  /\ v.failing + Cardinality(passing) = v.total
                  /\ v.ratio = [num |-> v.failing * 100, den |-> v.total]
                  /\ v.ratio.num > 0
                  /\ v.ratio.num <= 100 * v.ratio.den

C17_Witness ==
    /\ Called("rootCause")
    /\ \E l \in DOMAIN result.value :
          /\ "failing" \in DOMAIN result.value[l]
          /\ result.value[l].failing = 2
          /\ result.value[l].total = 3

\* the threshold the argument of a root-cause call holds for group l
ExpectedThreshold(thresholds, l) ==
    IF thresholds.given /\ l \in DOMAIN thresholds.map THEN thresholds.map[l] ELSE 85

\* C18: CQI不达标根因分析_按制式 applies to each group its own threshold of the mapping
\* and 85 to a group absent from it (and to all groups without a mapping); the result
\* of a group reports the threshold used and is the same under every mapping that
\* gives this group the same threshold, whatever it gives the other groups.
C18_ThresholdPerGroup ==
    Called("rootCause") =>
        /\ DOMAIN result.value = GroupLabels
        /\ \A l \in DOMAIN result.value :
              /\ result.value[l].threshold = ExpectedThreshold(result.args[1], l)
              /\ ("failing" \in DOMAIN result.value[l]
                    <=> BelowThreshold(l, ExpectedThreshold(result.args[1], l)) # {})
              /\ \A other \in ThresholdArgs :
                    ExpectedThreshold(other, l) = ExpectedThreshold(result.args[1], l)
                       => RootCauseAnalysis(cleanedData, other)[l] = result.value[l]

C18_Witness ==
    /\ Called("rootCause")
    /\ result.args[1].given
    /\ DOMAIN result.args[1].map = {"n28"}
    /\ result.args[1].map["n28"] = 90
    /\ DOMAIN result.value = {"n41", "n28"}
    /\ result.value["n41"].threshold = 85
    /\ result.value["n28"].threshold = 90
    /\ "failing" \in DOMAIN result.value["n28"]
    /\ "failing" \notin DOMAIN result.value["n41"]
    /\ \E i \in RowsOfLabel("n41") : cleanedData.rows[i].cqi < 90

\* the quadrant of the coverage-level x SINR matrix a row is in
QuadrantOfRow(r, levelThreshold, sinrThreshold) ==
    IF r.level > levelThreshold
    THEN (IF r.sinr > sinrThreshold THEN 1 ELSE 3)
    ELSE (IF r.sinr > sinrThreshold THEN 2 ELSE 4)

RECURSIVE SumPctNum(_)
SumPctNum(t) == IF t = <<>> THEN 0 ELSE Head(t).pct.num + SumPctNum(Tail(t))

\* the table of a group lists, in order, the quadrants that have members, with the
\* number of rows of the group in each, so the counts sum to the group's rows
QuadrantsCountEachRowOnce(l) ==
    LET t == result.value[l]
        members(k) == {i \in RowsOfLabel(l) :
                          QuadrantOfRow(cleanedData.rows[i], result.args[1],
                                        result.args[2]) = k}
    IN  /\ \A k \in 1..4 :
              members(k) # {} <=> \E i \in DOMAIN t : t[i].quadrant = k
        /\ \A i \in DOMAIN t : t[i].count = Cardinality(members(t[i].quadrant))
        /\ \A i, j \in DOMAIN t : i < j => t[i].quadrant < t[j].quadrant
        /\ SumCounts(t) = Cardinality(RowsOfLabel(l))
        /\ \A i \in DOMAIN t : t[i].pct.den = Cardinality(RowsOfLabel(l))

\* C19 (as claimed): in 四象限分析_按制式, for every group and every pair of
\* thresholds, each record is in exactly one quadrant, the counts of the reported
\* quadrants sum to the group's record count and their percentages sum to 100; a
\* quadrant is absent from the output exactly when it has no member.
C19_QuadrantsPartitionPercent100 ==
    Called("quadrant") =>
        /\ DOMAIN result.value = GroupLabels
        /\ \A l \in DOMAIN result.value :
              /\ QuadrantsCountEachRowOnce(l)
              /\ result.value[l] # <<>>
              /\ SumPctNum(result.value[l]) = 100 * result.value[l][1].pct.den

\* C19 (amended): as above, the percentages summing to 100 for every group that has
\* at least one record; a group without record gets an empty table.
C19_QuadrantsPartitionNonEmpty ==
    Called("quadrant") =>
        /\ DOMAIN result.value = GroupLabels
        /\ \A l \in DOMAIN result.value :
              /\ QuadrantsCountEachRowOnce(l)
              /\ IF RowsOfLabel(l) = {}
                 THEN result.value[l] = <<>>
                 ELSE /\ result.value[l] # <<>>
                      /\ SumPctNum(result.value[l]) = 100 * result.value[l][1].pct.den

C19_Witness ==
    /\ Called("quadrant")
    /\ \E l \in DOMAIN result.value :
          /\ Len(result.value[l]) = 2
          /\ Cardinality(RowsOfLabel(l)) = 3
          /\ \E i \in RowsOfLabel(l) :
                /\ cleanedData.rows[i].level = result.args[1]
                /\ cleanedData.rows[i].sinr = result.args[2]

\* C20 (as claimed): in 覆盖系数四象限分析_按制式 every record of a group, also one
\* whose coverage factor is 0, negative or missing, is in exactly one quadrant, so
\* the quadrant counts sum to the group's record count.
C20_FactorQuadrantsCoverEveryRecord ==
    Called("factorQuadrant") =>
        \A l \in DOMAIN result.value :
            SumCounts(result.value[l]) = Cardinality(RowsOfLabel(l))

-----------------------------------------------------------------------------
(* Properties of the boundaries, of cleaning and of the shape of the results *)

\* row r of group l is counted in one of the quadrants of side, and in no other one:
\* it is among the 象限数据 of a quadrant the table reports
CountedOnSide(l, r, f, bounds, side) ==
    LET inQuadrant(k) ==
            /\ \E j \in DOMAIN result.value[l] : result.value[l][j].quadrant = k
            /\ \E j \in DOMAIN QuadrantRows(GroupRows(l), f, bounds[k]) :
                  QuadrantRows(GroupRows(l), f, bounds[k])[j] = r
    IN  /\ \E k \in side : inQuadrant(k)
        /\ \A k \in (1..4) \ side : ~inQuadrant(k)

\* 四象限分析_按制式: a row at the coverage threshold is in quadrant 2 or 4 (poor
\* coverage), a row at the SINR threshold in quadrant 3 or 4 (poor SINR)
LevelSinrBoundaryLow ==
    Called("quadrant") =>
        \A l \in DOMAIN result.value : \A i \in RowsOfLabel(l) :
            LET r == cleanedData.rows[i]
                b == QuadrantBounds(result.args[1], result.args[2])
            IN  /\ r.level = result.args[1] => CountedOnSide(l, r, "sinr", b, {2, 4})
                /\ r.sinr = result.args[2] => CountedOnSide(l, r, "sinr", b, {3, 4})

\* 覆盖系数四象限分析_按制式: a row at the factor threshold is in quadrant 1 or 2
\* (reasonable distance), a row at the coverage threshold in quadrant 2 or 4
FactorBoundaryLow ==
    Called("factorQuadrant") =>
        \A l \in DOMAIN result.value : \A i \in RowsOfLabel(l) :
            LET r == cleanedData.rows[i]
                b == FactorQuadrantBounds(result.args[1], result.args[2])
            IN  /\ r.cf = result.args[1] => CountedOnSide(l, r, "cf", b, {1, 2})
                /\ r.level = result.args[2] => CountedOnSide(l, r, "cf", b, {2, 4})

\* C21 (as claimed): in both quadrant classifiers a record whose metric value equals
\* the threshold is always placed on the below-or-equal side of that metric (poor
\* coverage, poor SINR, reasonable distance), for each of the two metrics
\* independently and for every threshold value.
C21_ThresholdValueOnLowSide == LevelSinrBoundaryLow /\ FactorBoundaryLow

\* C25 (as claimed): when the 覆盖系数 column is absent and 方向角站间距 is present,
\* cleaning derives 覆盖系数 = TA / distance, null for every record whose distance is
\* zero or missing and never infinite; a 覆盖系数 column that is present is kept,
\* only coerced to numeric.
C25_DerivedFactorNullOnZeroDistance ==
    Cleaned =>
        /\ ("cf" \notin rawData.cols /\ "isd" \in rawData.cols) =>
              /\ "cf" \in cleanedData.cols
              /\ \A i \in DOMAIN cleanedData.rows :
                    LET r == cleanedData.rows[i]
                    IN  /\ r.cf \notin {Inf, NegInf}
                        /\ IF r.isd \in {0, NaN, Text} \/ r.ta \in {NaN, Text}
                           THEN r.cf = NaN
                           ELSE r.cf = (r.ta * 100) \div r.isd
        /\ "cf" \in rawData.cols =>
              \A i \in DOMAIN cleanedData.rows :
                  \E j \in DOMAIN rawData.rows :
                      /\ rawData.rows[j].idx = cleanedData.rows[i].idx
                      /\ cleanedData.rows[i].cf =
                            (IF rawData.rows[j].cf = Text THEN NaN ELSE rawData.rows[j].cf)

\* C30 (as claimed): the per-group result of CQI不达标根因分析_按制式 has the same
\* fields whether or not the group has failing records: 不达标小区数 and 总小区数,
\* which the page of the root causes reads for every group, are always there.
C30_RootCauseFieldsAlwaysPresent ==
    Called("rootCause") =>
        \A l \in DOMAIN result.value :
            DOMAIN result.value[l] = {"causes", "ratio", "failing", "total", "threshold"}

-----------------------------------------------------------------------------
(* Properties of the growth rates of the inflection detector *)

\* the mean rate of row k of table t is more than pct percent above that of row k - 1
\* (both rows with members, the mean of row k - 1 positive)
MeanRateUpMoreThan(t, k, pct) ==
    /\ k >= 2 /\ t[k].count > 0 /\ t[k - 1].count > 0 /\ t[k - 1].dlSum > 0
    /\ 100 * t[k].dlSum * t[k - 1].count > (100 + pct) * t[k - 1].dlSum * t[k].count

MeanRateUpLessThan(t, k, pct) ==
    /\ k >= 2 /\ t[k].count > 0 /\ t[k - 1].count > 0 /\ t[k - 1].dlSum > 0
    /\ 100 * t[k].dlSum * t[k - 1].count < (100 + pct) * t[k - 1].dlSum * t[k].count

\* 显著提升点 holds exactly the rows that grew by more than 10 %, 平稳点 exactly those
\* that grew by less than 5 %
GrowthSetsExact ==
    \A l \in DOMAIN result.value :
        LET v == result.value[l]
        IN  /\ \A k \in DOMAIN v.table : v.table[k].count > 0 /\ v.table[k].dlSum > 0
            /\ v.significant = {k \in DOMAIN v.table : MeanRateUpMoreThan(v.table, k, 10)}
            /\ v.plateau = {k \in DOMAIN v.table : MeanRateUpLessThan(v.table, k, 5)}

\* some dataset and 分段数 make the detector return a row that is in both sets
SomeInputOverlaps ==
    \E frame \in CellFrames \cup BandFrames, q \in 1..MaxSeg :
        LET r == InflectionAnalysis(CleanFrame(frame), q)
        IN  /\ r.raised = "none"
            /\ \E l \in DOMAIN r.value : r.value[l].significant \cap r.value[l].plateau # {}

-----------------------------------------------------------------------------
(* Properties of a session *)

\* C22 (as claimed): no analysis operation aborts: for every cleaned dataset, also
\* one with a group of 1 or 2 records, and every configuration, also a layering
\* boundary list of any length, each analysis returns a result instead of raising.
C22_NoAnalysisRaises == pc = "returned" => result.raised = "none"

\* what the invocation in result returns on the data as cleaning left it
FirstOutcome ==
    LET frame == CleanFrame(rawData)
    IN  CASE result.op = "group" -> GroupByStandard(frame)
          [] result.op = "inflection" -> InflectionAnalysis(frame, result.args[1]).value
          [] result.op = "rateImpact" -> RateImpact(frame).value
          [] result.op = "rank" -> RankFactors(frame).value
          [] result.op = "contribution" -> ContributionAnalysis(frame)
          [] OTHER -> result.value

\* C23 (as claimed): repeated invocation is idempotent: whatever analyses ran since
\* cleaning, an invocation returns the result the same invocation returned right
\* after cleaning.
C23_RepeatedInvocationSameResult ==
    pc = "returned" => result.value = FirstOutcome

\* C24 (as claimed): no analysis operation changes the cleaned dataset: it has the
\* rows and the columns cleaning gave it, also after CQI速率拐点分析_按制式 on a
\* dataset without 网络制式 column, whose single group is the cleaned dataset itself.
C24_CleanedDataNeverChanges ==
    Cleaned => cleanedData = CleanFrame(rawData)

\* the optional columns the cleaned data lacks
OptionalAbsent == {"cf", "overlap", "area", "std"} \ cleanedData.cols

\* the cleaned data with the optional columns 覆盖系数, 重叠覆盖 and 覆盖区域 filled in
Completed ==
    [cols |-> cleanedData.cols \cup {"cf", "overlap", "area"},
     rows |-> [i \in DOMAIN cleanedData.rows |->
        LET r == cleanedData.rows[i]
        IN  [f \in DOMAIN r \cup {"area"} |->
                CASE f = "area" /\ "area" \notin cleanedData.cols -> "urban"
                  [] f = "cf" /\ "cf" \notin cleanedData.cols -> 2 * r.ta
                  [] f = "overlap" /\ "overlap" \notin cleanedData.cols -> 10 + (i % 3)
                  [] OTHER -> r[f]]]]

\* the invocation in result raises on frame
RaisesOn(frame) ==
    CASE result.op = "rank" -> RankFactors(frame).raised # "none"
      [] result.op = "rateImpact" -> RateImpact(frame).raised # "none"
      [] result.op = "quantile" ->
            QuantileRateAnalysis(frame, result.args[1]).raised # "none"
      [] result.op = "groupAnalysis" -> GroupAnalysis(frame, result.args[1]).raised # "none"
      [] result.op = "inflection" ->
            InflectionAnalysis(frame, result.args[1]).raised # "none"
      [] result.op = "layered" ->
            LayeredAnalysis(frame, result.args[1], result.args[2]).raised # "none"
      [] OTHER -> FALSE

FieldsOf(list) == {list[i].field : i \in DOMAIN list}

WithoutGroups(labels) ==
    [cols |-> cleanedData.cols,
     rows |-> SelectSeq(cleanedData.rows,
                        LAMBDA r : IF "std" \in cleanedData.cols
                                   THEN r.std \notin labels
                                   ELSE "all" \notin labels)]

\* the groups too small for the invocation in result
TooSmallGroups ==
    IF result.op = "quantile"
    THEN {l \in GroupLabels : Cardinality(ValidOfLabel(l)) < MinQuantileRows}
    ELSE {l \in GroupLabels : Len(GroupRows(l)) < result.args[1] * RowsPerSegment}

\* C27: insufficient data is reported by omission, never by an error:
\* CQI分位数速率分析_按制式 omits a group with fewer than 10 valid rows and
\* CQI速率拐点分析_按制式 a group with fewer than 分段数 * 5 rows, and the outcome
\* (the results of the other groups, or the error one of them causes) is the one the
\* dataset without the small groups gives.
C27_SmallGroupsOmitted ==
    /\ Called("quantile") =>
          LET r == QuantileRateAnalysis(WithoutGroups(TooSmallGroups), result.args[1])
          IN  /\ result.raised = r.raised
              /\ result.value = r.value
              /\ result.raised = "none" => DOMAIN result.value \cap TooSmallGroups = {}
    /\ Called("inflection") =>
          LET r == InflectionAnalysis(WithoutGroups(TooSmallGroups), result.args[1])
          IN  /\ result.raised = r.raised
              /\ result.value = r.value
              /\ result.raised = "none" => DOMAIN result.value \cap TooSmallGroups = {}

C27_Witness ==
    /\ Called("inflection")
    /\ result.raised = "none"
    /\ TooSmallGroups = {"n28"}
    /\ DOMAIN result.value = {"n41"}
    /\ Len(result.value["n41"].table) > 1

\* the positions of the rows of group l in band k of the dimension, the band reaching
\* from the threshold before it (0, or no bound for the coverage level, for the first
\* band) up to and including its own threshold (no bound for the last band)
BandMembers(l, dimension, list, k) ==
    {i \in RowsOfLabel(l) :
        LET v == cleanedData.rows[i][dimension]
        IN  /\ v \notin {NaN, Text}
            /\ IF k = 1 THEN (dimension = "level" \/ v > 0) ELSE v > list[k - 1]
            /\ k = Len(LayerDefaults(dimension)) + 1 \/ v <= list[k]}

\* the thresholds in force: the caller's list, the default for None or an empty list
ThresholdsInForce ==
    IF result.args[2].given /\ result.args[2].list # <<>>
    THEN result.args[2].list
    ELSE LayerDefaults(result.args[1])

\* C28: in 多维度分层分析_按制式, for each supported dimension, a band appears exactly
\* when more than 5 records of the group fall in it, its 样本数 is the number of
\* records in the band, and each correlation within the band is a number only when
\* more than 10 records of the band are non-null in both fields, None otherwise.
C28_BandsAboveFiveCorrelationsAboveTen ==
    (Called("layered") /\ result.raised = "none" /\ result.args[1] \in LayerDimensions) =>
        /\ DOMAIN result.value = {l \in GroupLabels : result.args[1] \in cleanedData.cols}
        /\ \A l \in DOMAIN result.value :
              LET t == result.value[l]
                  members(k) == BandMembers(l, result.args[1], ThresholdsInForce, k)
              IN  /\ \A k \in 1..(Len(LayerDefaults(result.args[1])) + 1) :
                        Cardinality(members(k)) > 5 <=> \E i \in DOMAIN t : t[i].band = k
                  /\ \A i, j \in DOMAIN t : i < j => t[i].band < t[j].band
                  /\ \A i \in DOMAIN t :
                        /\ t[i].count = Cardinality(members(t[i].band))
                        /\ \A f \in DOMAIN t[i].corr :
                              t[i].corr[f].kind # "None" <=>
                                  Cardinality({m \in members(t[i].band) :
                                      /\ cleanedData.rows[m][f] # NaN
                                      /\ cleanedData.rows[m].cqi # NaN}) > 10

C28_Witness ==
    /\ Called("layered")
    /\ result.raised = "none"
    /\ result.args[1] = "cf"
    /\ \E l \in DOMAIN result.value :
          /\ Len(result.value[l]) = 1
          /\ result.value[l][1].count = 8
          /\ result.value[l][1].corr["level"].kind = "None"
          /\ Cardinality(BandMembers(l, "cf", ThresholdsInForce, 2)) = 4

====
